---- MODULE Spec2Model ----
(***************************************************************************)
(* A model of the route generation helpers, the permission / user stores,  *)
(* the sign-in sequence and the axios wrapper of vue-element-plus-admin.   *)
(*                                                                         *)
(* Strings that the code inspects character by character (route paths and  *)
(* permitted path keys) are sequences of one-character strings, so that    *)
(* startsWith, replace(/\/\//g, '/') and trim are computed, not assumed.   *)
(* A route table gives every route a name of its own, as vue-router        *)
(* requires.  An optional property of a JS object is a field that the      *)
(* record may lack (tested with Has); a value that may be undefined is a   *)
(* sequence of length 0 (undefined) or 1 (the value).                      *)
(***************************************************************************)
EXTENDS Integers, Sequences, FiniteSets, TLC

VARIABLES
    table,      \* routerHelper: the route list handed to the helper under study
    keys,       \* routerHelper: the permitted path keys (generateRoutesByFrontEnd)
    out,        \* routerHelper: the list the helper returned
    phase,      \* routerHelper harness: "build" while the input grows, "done" after the call
    dynamicRouter,        \* app store
    serverDynamicRouter,  \* app store
    useMock,              \* import.meta.env.VITE_USE_MOCK === 'true'
    redirect,             \* LoginForm: the redirect query of the current route
    userInfo,             \* user store (undefined: <<>>)
    tokenKey,             \* user store
    token,                \* user store
    roleRouters,          \* user store (undefined: <<>>)
    rememberMe,           \* user store
    loginInfo,            \* user store (undefined: <<>>)
    routers,              \* permission store
    addRouters,           \* permission store
    isAddRouters,         \* permission store
    registered,           \* router: names of the routes added with addRoute
    nav,                  \* router: the last navigation issued (push or replace)
    visitedViews,         \* tagsView store
    cachedViews,          \* tagsView store
    loading,              \* LoginForm: the sign-in button's loading flag
    requests,             \* axios: the requests in flight
    abortControllerMap,   \* axios service: url -> controller, a set of [key, id]
    issued,               \* axios: number of requests issued so far
    cont,                 \* the continuation (microtask chain) that is running
    signIns,              \* the steps each sign-in sequence has taken
    selectedTag,          \* tagsView store (undefined: <<>>)
    schema,               \* Form: the schema array the form renders (getProps.schema)
    mergeProps,           \* Form: the props merged by setProps (a prop not given: <<>>)
    formModel,            \* Form: the form data, field -> value ("" for none)
    formRef,              \* useForm: whether a Form instance is registered
    storage,              \* window.sessionStorage / localStorage: sets of [key, text]
    called,               \* tagsView store: the action called last, and whether its view was found
    currentPage,          \* useTable
    pageSize,             \* useTable
    total,                \* useTable
    dataList,             \* useTable
    tableLoading,         \* useTable: its loading ref
    fetches,              \* useTable: the fetchDataApi calls still pending
    fetched,              \* useTable: number of fetchDataApi calls so far
    settled               \* useTable: how each fetchDataApi call ended, by its number

routeVars == <<table, keys, out, phase>>

configVars == <<dynamicRouter, serverDynamicRouter, useMock, redirect>>

userVars == <<userInfo, tokenKey, token, roleRouters, rememberMe, loginInfo>>

permissionVars == <<routers, addRouters, isAddRouters>>

routerVars == <<registered, nav>>

tagsVars == <<visitedViews, cachedViews>>

axiosVars == <<requests, abortControllerMap, issued>>

formVars == <<loading, cont, signIns>>

viewVars == <<selectedTag>>

schemaVars == <<schema, mergeProps, formModel, formRef>>

storageVars == <<storage>>

calledVars == <<called>>

tableVars == <<currentPage, pageSize, total, dataList, tableLoading, fetches, fetched,
              settled>>

hookVars == <<viewVars, schemaVars, storageVars, calledVars, tableVars>>

sessionVars == <<configVars, userVars, permissionVars, routerVars, tagsVars,
                 axiosVars, formVars, hookVars>>

vars == <<routeVars, sessionVars>>

\* ---------------------------------------------------------------- bounds

MaxNodesFE == 3
MaxNodesFlat == 4
MaxNodesSrv == 3
MaxSignIns == 2
MaxLogouts == 1
MaxRequests == 3

\* ------------------------------------------------------- string helpers

Has(r, f) == f \in DOMAIN r

Letters == {"a", "b", "c", "h", "x"}

IsSpace(c) == c = " "

RECURSIVE TrimStart(_)
TrimStart(s) ==
    IF s # <<>> /\ IsSpace(Head(s)) THEN TrimStart(Tail(s)) ELSE s

RECURSIVE TrimEnd(_)
TrimEnd(s) ==
    IF s # <<>> /\ IsSpace(s[Len(s)]) THEN TrimEnd(SubSeq(s, 1, Len(s) - 1)) ELSE s

\* String.prototype.trim
Trim(s) == TrimEnd(TrimStart(s))

\* String.prototype.startsWith('/')
StartsWithSlash(s) == s # <<>> /\ Head(s) = "/"

\* String.prototype.replace(/\/\//g, '/'): left to right, matches do not overlap
RECURSIVE ReplaceDoubleSlash(_)
ReplaceDoubleSlash(s) ==
    IF Len(s) < 2 THEN s
    ELSE IF s[1] = "/" /\ s[2] = "/"
         THEN <<"/">> \o ReplaceDoubleSlash(SubSeq(s, 3, Len(s)))
         ELSE <<s[1]>> \o ReplaceDoubleSlash(Tail(s))

\* isUrl: new URL(path) succeeds.  Over this alphabet the URL parser accepts
\* exactly the strings that, after stripping leading and trailing spaces,
\* start with a scheme (letters) followed by ':'.
isUrl(path) ==
    LET p == Trim(path)
    IN  \E k \in 2..Len(p) : p[k] = ":" /\ \A j \in 1..(k - 1) : p[j] \in Letters

\* pathResolve(parentPath, path)
pathResolve(parentPath, path) ==
    IF isUrl(path) THEN path
    ELSE LET childPath == IF StartsWithSlash(path) \/ path = <<>>
                          THEN path ELSE <<"/">> \o path
         IN  Trim(ReplaceDoubleSlash(parentPath \o childPath))

\* ------------------------------------------------------- route records

\* route.children is present (Reflect.has / truthiness of an array)
HasChildren(route) == Has(route, "children")

\* route.children?.length, 0 when the property is missing
ChildrenLength(route) == IF HasChildren(route) THEN Len(route.children) ELSE 0

\* meta.<flag> read as a boolean: a missing flag is falsy
Flag(meta, f) == Has(meta, f) /\ meta[f]

\* lodash omit(item, 'children')
OmitChildren(item) == [f \in DOMAIN item \ {"children"} |-> item[f]]

RECURSIVE CountNodes(_)
CountNodes(routes) ==
    IF routes = <<>> THEN 0
    ELSE 1 + (IF HasChildren(Head(routes)) THEN CountNodes(Head(routes).children) ELSE 0)
           + CountNodes(Tail(routes))

RECURSIVE NamesOf(_)
NamesOf(routes) ==
    IF routes = <<>> THEN {}
    ELSE {Head(routes).name}
         \cup (IF HasChildren(Head(routes)) THEN NamesOf(Head(routes).children) ELSE {})
         \cup NamesOf(Tail(routes))

\* the route list with `node` appended to the children of the route named p
\* (creating the children array when the route has none)
RECURSIVE InsertUnder(_, _, _)
InsertUnder(routes, p, node) ==
    IF routes = <<>> THEN <<>>
    ELSE LET r == Head(routes)
             r2 == IF r.name = p
                   THEN IF HasChildren(r)
                        THEN [r EXCEPT !.children = Append(@, node)]
                        ELSE [f \in DOMAIN r \cup {"children"} |->
                                 IF f = "children" THEN <<node>> ELSE r[f]]
                   ELSE IF HasChildren(r)
                        THEN [r EXCEPT !.children = InsertUnder(@, p, node)]
                        ELSE r
         IN  <<r2>> \o InsertUnder(Tail(routes), p, node)

\* the route list with an empty children array given to the childless route named p
RECURSIVE GiveEmptyChildren(_, _)
GiveEmptyChildren(routes, p) ==
    IF routes = <<>> THEN <<>>
    ELSE LET r == Head(routes)
             r2 == IF r.name = p /\ ~HasChildren(r)
                   THEN [f \in DOMAIN r \cup {"children"} |->
                            IF f = "children" THEN <<>> ELSE r[f]]
                   ELSE IF HasChildren(r)
                        THEN [r EXCEPT !.children = GiveEmptyChildren(@, p)]
                        ELSE r
         IN  <<r2>> \o GiveEmptyChildren(Tail(routes), p)

\* ------------------------------------------- generateRoutesByFrontEnd

\* onlyOneChild: the resolved path of the only child, or "none"
HasOnlyOneChild(route) ==
    HasChildren(route) /\ Len(route.children) = 1 /\ ~Flag(route.meta, "alwaysShow")

OnlyOneChildPath(route, basePath) ==
    IF isUrl(route.children[1].path)
    THEN route.children[1].path
    ELSE pathResolve(pathResolve(basePath, route.path), route.children[1].path)

\* KeyMatches with the isUrl(item) test of the first branch forgotten: any key
\* equal to the raw route.path selects the route
KeyMatches_RawPath(route, item, basePath) ==
    \/ route.path = item
    \/ (HasOnlyOneChild(route) /\ Trim(OnlyOneChildPath(route, basePath)) = item)
    \/ (~HasOnlyOneChild(route) /\ Trim(pathResolve(basePath, route.path)) = item)
    \/ (Has(route.meta, "followRoute") /\ route.meta.followRoute = item)

\* the body of `for (const item of keys)`: does key `item` select the route
KeyMatches(route, item, basePath) ==
    IF isUrl(item)
       /\ (   (HasOnlyOneChild(route) /\ OnlyOneChildPath(route, basePath) = item)
           \/ route.path = item)
    THEN TRUE
    ELSE LET routePath == Trim(IF HasOnlyOneChild(route)
                               THEN OnlyOneChildPath(route, basePath)
                               ELSE pathResolve(basePath, route.path))
         IN  routePath = item
             \/ (Has(route.meta, "followRoute") /\ route.meta.followRoute = item)

\* generateRoutesByFrontEnd without the recursive call for the children: a
\* kept route loses the routes below it
RECURSIVE generateRoutesByFrontEnd_TopOnly(_, _, _)
generateRoutesByFrontEnd_TopOnly(routes, ks, basePath) ==
    IF routes = <<>> THEN <<>>
    ELSE LET route == Head(routes)
             rest  == generateRoutesByFrontEnd_TopOnly(Tail(routes), ks, basePath)
         IN  IF Flag(route.meta, "hidden") /\ ~Flag(route.meta, "canTo")
             THEN rest
             ELSE IF \E item \in ks : KeyMatches(route, item, basePath)
                  THEN <<IF HasChildren(route)
                         THEN [route EXCEPT !.children = <<>>]
                         ELSE route>> \o rest
                  ELSE rest

RECURSIVE generateRoutesByFrontEnd(_, _, _)
generateRoutesByFrontEnd(routes, ks, basePath) ==
    IF routes = <<>> THEN <<>>
    ELSE LET route == Head(routes)
             rest  == generateRoutesByFrontEnd(Tail(routes), ks, basePath)
         IN  IF Flag(route.meta, "hidden") /\ ~Flag(route.meta, "canTo")
             THEN rest
             ELSE IF \E item \in ks : KeyMatches(route, item, basePath)
                  THEN LET data == IF HasChildren(route)
                                   THEN [route EXCEPT !.children =
                                            generateRoutesByFrontEnd(
                                                route.children, ks,
                                                pathResolve(basePath, route.path))]
                                   ELSE route
                       IN  <<data>> \o rest
                  ELSE rest

\* --------------------------------------------- generateRoutesByServer

\* String.prototype.includes
Includes(s, sub) ==
    \E i \in 0..(Len(s) - Len(sub)) : SubSeq(s, i + 1, i + Len(sub)) = sub

C_layout == <<"#">>
C_parent == <<"#", "#">>
C_home == <<"v">>
C_missing == <<"m">>

\* import.meta.glob('../views/**/*.{vue,tsx}'): the view files that exist
Modules == {C_home}

\* the component values a generated record can carry
Layout == <<"Layout">>
ParentLayout == <<"ParentLayout">>
ComModule(component) == <<"module">> \o component
Undefined == <<"undefined">>

\* the record built for one server route, before its children are attached
ServerData(route) ==
    LET base == [path |-> route.path, name |-> route.name,
                 redirect |-> route.redirect, meta |-> route.meta]
        component == route.component
    IN  IF component = <<>> THEN base
        ELSE IF component \notin Modules /\ ~Includes(component, <<"#">>)
             THEN base                       \* console.error, no component
             ELSE [f \in DOMAIN base \cup {"component"} |->
                      IF f # "component" THEN base[f]
                      ELSE IF component = <<"#">> THEN Layout
                      ELSE IF Includes(component, <<"#", "#">>) THEN ParentLayout
                      ELSE IF component \in Modules THEN ComModule(component)
                      ELSE Undefined]

\* generateRoutesByServer with a `continue` after the console.error: a route
\* whose view file is missing is left out
RECURSIVE generateRoutesByServer_SkipMissing(_)
generateRoutesByServer_SkipMissing(routes) ==
    IF routes = <<>> THEN <<>>
    ELSE LET route == Head(routes)
             data  == ServerData(route)
             rest  == generateRoutesByServer_SkipMissing(Tail(routes))
         IN  IF route.component # <<>> /\ ~Has(data, "component") THEN rest
             ELSE IF HasChildren(route)
             THEN <<[f \in DOMAIN data \cup {"children"} |->
                        IF f = "children"
                        THEN generateRoutesByServer_SkipMissing(route.children)
                        ELSE data[f]]>> \o rest
             ELSE <<data>> \o rest

RECURSIVE generateRoutesByServer(_)
generateRoutesByServer(routes) ==
    IF routes = <<>> THEN <<>>
    ELSE LET route == Head(routes)
             data  == ServerData(route)
         IN  (IF HasChildren(route)
              THEN <<[f \in DOMAIN data \cup {"children"} |->
                         IF f = "children"
                         THEN generateRoutesByServer(route.children)
                         ELSE data[f]]>>
              ELSE <<data>>)
             \o generateRoutesByServer(Tail(routes))

\* ----------------------------------------------- flatMultiLevelRoutes

isMultipleRoute(route) ==
    /\ HasChildren(route)
    /\ Len(route.children) > 0
    /\ \E index \in 1..Len(route.children) : ChildrenLength(route.children[index]) > 0

\* vue-router's record normalisation: the record of a nested route carries the
\* path joined with its parent's, its name and meta, and the raw children array
NormalizedPath(parentPath, path, nested) ==
    IF nested /\ ~StartsWithSlash(path)
    THEN parentPath
         \o (IF path = <<>> THEN <<>>
             ELSE (IF parentPath # <<>> /\ parentPath[Len(parentPath)] = "/"
                   THEN <<>> ELSE <<"/">>) \o path)
    ELSE path

NormalizedRecord(route, fullPath) ==
    [path |-> fullPath, name |-> route.name, meta |-> route.meta,
     children |-> IF HasChildren(route) THEN route.children ELSE <<>>]

\* createRouter({ routes: [route] }).getRoutes(): one record per route of the tree
RECURSIVE RouterRecords(_, _, _)
RouterRecords(routes, parentPath, nested) ==
    IF routes = <<>> THEN <<>>
    ELSE LET r == Head(routes)
             full == NormalizedPath(parentPath, r.path, nested)
         IN  <<NormalizedRecord(r, full)>>
             \o (IF HasChildren(r) THEN RouterRecords(r.children, full, TRUE) ELSE <<>>)
             \o RouterRecords(Tail(routes), parentPath, nested)

getRoutes(route) == RouterRecords(<<route>>, <<>>, FALSE)

\* Array.prototype.find by name
FoundByName(list, n) == \E i \in 1..Len(list) : list[i].name = n

FindByName(list, n) ==
    list[CHOOSE i \in 1..Len(list) :
            list[i].name = n /\ \A j \in 1..(i - 1) : list[j].name # n]

\* PushFound with the presence test made on `routes` instead of
\* routeModule.children: the route is always "already there"
PushFound_WrongList(routes, child, moduleChildren) ==
    IF FoundByName(routes, FindByName(routes, child.name).name)
    THEN moduleChildren
    ELSE Append(moduleChildren, FindByName(routes, child.name))

\* the push of the loop body of addToChildren for `child` (found in routes):
\* routeModule.children afterwards
PushFound(routes, child, moduleChildren) ==
    IF FoundByName(moduleChildren, FindByName(routes, child.name).name)
    THEN moduleChildren
    ELSE Append(moduleChildren, FindByName(routes, child.name))

\* addToChildren(routes, children, routeModule) for a children array other
\* than routeModule.children (the recursive calls): the value is
\* routeModule.children after the call
RECURSIVE addToChildren(_, _, _)
addToChildren(routes, children, moduleChildren) ==
    IF children = <<>> THEN moduleChildren
    ELSE LET child == Head(children)
         IN  IF ~FoundByName(routes, child.name)
             THEN addToChildren(routes, Tail(children), moduleChildren)
             ELSE LET pushed == PushFound(routes, child, moduleChildren)
                      below  == IF ChildrenLength(child) > 0
                                THEN addToChildren(routes, child.children, pushed)
                                ELSE pushed
                  IN  addToChildren(routes, Tail(children), below)

\* the outer call addToChildren(routes, route.children, route): the loop runs
\* over routeModule.children itself, so it also visits the records it pushes
RECURSIVE addToChildrenOfModule(_, _, _)
addToChildrenOfModule(routes, moduleChildren, index) ==
    IF index > Len(moduleChildren) THEN moduleChildren
    ELSE LET child == moduleChildren[index]
         IN  IF ~FoundByName(routes, child.name)
             THEN addToChildrenOfModule(routes, moduleChildren, index + 1)
             ELSE LET pushed == PushFound(routes, child, moduleChildren)
                      below  == IF ChildrenLength(child) > 0
                                THEN addToChildren(routes, child.children, pushed)
                                ELSE pushed
                  IN  addToChildrenOfModule(routes, below, index + 1)

\* promoteRouteLevel without the final omit(item, 'children')
promoteRouteLevel_KeepChildren(route) ==
    [route EXCEPT !.children = addToChildrenOfModule(getRoutes(route), route.children, 1)]

promoteRouteLevel(route) ==
    LET all == addToChildrenOfModule(getRoutes(route), route.children, 1)
    IN  [route EXCEPT !.children = [i \in 1..Len(all) |-> OmitChildren(all[i])]]

\* cloneDeep copies a value; values are not shared here, so the copy is the value
cloneDeep(v) == v

flatMultiLevelRoutes(routes) ==
    LET modules == cloneDeep(routes)
    IN  [index \in 1..Len(modules) |->
            IF ~isMultipleRoute(modules[index])
            THEN modules[index]
            ELSE promoteRouteLevel(modules[index])]

\* ------------------------------------------------ inputs of the helper

P_a == <<"/", "a">>
P_b == <<"b">>
P_bsp == <<"b", " ">>
P_url == <<"h", ":", "x">>

\* route templates: a path and a meta, the name is given when the route is added
FETemplates ==
    { [path |-> P_a,   meta |-> [title |-> "plain"]],
      [path |-> P_b,   meta |-> [title |-> "plain"]],
      [path |-> P_url, meta |-> [title |-> "link"]],
      [path |-> P_b,   meta |-> [title |-> "hid", hidden |-> TRUE]],
      [path |-> P_b,   meta |-> [title |-> "canTo", hidden |-> TRUE, canTo |-> TRUE]],
      [path |-> P_a,   meta |-> [title |-> "always", alwaysShow |-> TRUE]],
      [path |-> P_bsp, meta |-> [title |-> "follow", followRoute |-> P_a]] }

FEKeyPool == { P_a, <<"/", "b">>, <<"/", "a", "/", "b">>, P_url }

\* the names given to the routes of a table, in the order the routes are added
RouteNames == <<"n1", "n2", "n3", "n4", "n5", "n6">>

MkRoute(tmpl, n) == [path |-> tmpl.path, name |-> RouteNames[n], meta |-> tmpl.meta]

RouteIdle == table = <<>> /\ keys = {} /\ out = <<>> /\ phase = "build"

\* ------------------------------------------- the stores after construction

NoNavigation == [kind |-> "none", path |-> <<>>]

Idle == [pc |-> "idle", sid |-> 0, data |-> <<>>]

StorageTypes == {"sessionStorage", "localStorage"}

\* the fields of the forms; a field without a value holds ""
FormFields == {"name", "role", "age"}

\* a FormProps object: each prop is <<>> when it is not given
NoProps == [schema |-> <<>>, model |-> <<>>, isCol |-> <<>>]

\* no tag is selected, no form is mounted, the browser storage is empty and
\* the table hook has its initial refs
HooksIdle ==
    /\ selectedTag = <<>>
    /\ schema = <<>>
    /\ mergeProps = NoProps
    /\ formModel = [f \in FormFields |-> ""]
    /\ formRef = FALSE
    /\ storage = [ty \in StorageTypes |-> {}]
    /\ called = [action |-> "none", found |-> FALSE]
    /\ currentPage = 1
    /\ pageSize = 10
    /\ total = 0
    /\ dataList = <<>>
    /\ tableLoading = FALSE
    /\ fetches = {}
    /\ fetched = 0
    /\ settled = <<>>

\* the state of the stores, the router, the form and the axios service when
\* the application has been set up
StoresConstructed ==
    /\ userInfo = <<>>
    /\ tokenKey = "Authorization"
    /\ token = ""
    /\ roleRouters = <<>>
    /\ rememberMe = TRUE
    /\ loginInfo = <<>>
    /\ routers = <<>>
    /\ addRouters = <<>>
    /\ isAddRouters = FALSE
    /\ registered = {}
    /\ nav = NoNavigation
    /\ visitedViews = <<>>
    /\ cachedViews = {}
    /\ loading = FALSE
    /\ requests = {}
    /\ abortControllerMap = {}
    /\ issued = 0
    /\ cont = Idle
    /\ signIns = <<>>
    /\ HooksIdle

\* the session part while a route helper is studied on its own
SessionIdle ==
    /\ dynamicRouter = TRUE
    /\ serverDynamicRouter = TRUE
    /\ useMock = FALSE
    /\ redirect = <<>>
    /\ StoresConstructed

\* ------------------------------------- SpecFrontEnd: the front-end filter

InitFE == RouteIdle /\ SessionIdle

FEAddTop(tmpl) ==
    /\ phase = "build"
    /\ CountNodes(table) < MaxNodesFE
    /\ table' = Append(table, MkRoute(tmpl, CountNodes(table) + 1))
    /\ UNCHANGED <<keys, out, phase, sessionVars>>

FEAddChild(p, tmpl) ==
    /\ phase = "build"
    /\ CountNodes(table) < MaxNodesFE
    /\ p \in NamesOf(table)
    /\ table' = InsertUnder(table, p, MkRoute(tmpl, CountNodes(table) + 1))
    /\ UNCHANGED <<keys, out, phase, sessionVars>>

FEGenerate(ks) ==
    /\ phase = "build"
    /\ keys' = ks
    /\ out' = generateRoutesByFrontEnd(table, ks, <<"/">>)
    /\ phase' = "done"
    /\ UNCHANGED <<table, sessionVars>>

NextFE ==
    \/ \E tmpl \in FETemplates : FEAddTop(tmpl)
    \/ \E p \in NamesOf(table), tmpl \in FETemplates : FEAddChild(p, tmpl)
    \/ \E ks \in SUBSET FEKeyPool : FEGenerate(ks)

SpecFrontEnd == InitFE /\ [][NextFE]_vars

\* every route of a list, at any depth, with the base path it is resolved against
RECURSIVE Entries(_, _)
Entries(routes, basePath) ==
    IF routes = <<>> THEN {}
    ELSE LET r == Head(routes)
         IN  {[node |-> r, base |-> basePath]}
             \cup (IF HasChildren(r)
                   THEN Entries(r.children, pathResolve(basePath, r.path))
                   ELSE {})
             \cup Entries(Tail(routes), basePath)

\* the path a key is compared with: the resolved path of the route, or of its
\* only child when it has exactly one child and no alwaysShow
ComparedPath(e) ==
    IF HasOnlyOneChild(e.node)
    THEN OnlyOneChildPath(e.node, e.base)
    ELSE pathResolve(e.base, e.node.path)

FollowsKey(e, k) == Has(e.node.meta, "followRoute") /\ e.node.meta.followRoute = k

\* outList is inList with routes (and routes below them) left out: same order,
\* every kept record equal to its input record but for its children
RECURSIVE IsFilterOf(_, _)
IsFilterOf(outList, inList) ==
    IF outList = <<>> THEN TRUE
    ELSE IF inList = <<>> THEN FALSE
    ELSE \/ /\ OmitChildren(Head(outList)) = OmitChildren(Head(inList))
            /\ HasChildren(Head(outList)) = HasChildren(Head(inList))
            /\ HasChildren(Head(outList)) =>
                   IsFilterOf(Head(outList).children, Head(inList).children)
            /\ IsFilterOf(Tail(outList), Tail(inList))
         \/ IsFilterOf(outList, Tail(inList))

\* C1 (as stated): generateRoutesByFrontEnd keeps a route only if some key
\* equals the path it is compared by (its resolved path; for a route with
\* exactly one child and no alwaysShow, that child's resolved path) or its
\* meta.followRoute, and it produces no route that the input table lacks.
C1_KeptOnlyByComparedPath ==
    phase = "done" =>
        /\ IsFilterOf(out, table)
        /\ \A o \in Entries(out, <<"/">>) :
               \E e \in Entries(table, <<"/">>) :
                   /\ e.node.name = o.node.name
                   /\ \E k \in keys : k = ComparedPath(e) \/ FollowsKey(e, k)

\* C1 (amended): as above, and a key that is a URL also keeps the route whose
\* own path is that URL, whatever its only child's path is.
C1_KeptOnlyByKey ==
    phase = "done" =>
        /\ IsFilterOf(out, table)
        /\ \A o \in Entries(out, <<"/">>) :
               \E e \in Entries(table, <<"/">>) :
                   /\ e.node.name = o.node.name
                   /\ \E k \in keys :
                          \/ k = ComparedPath(e)
                          \/ FollowsKey(e, k)
                          \/ (isUrl(k) /\ e.node.path = k)

\* a call that kept a parent through its only child's path, kept that child
\* below it and left another route out
C1_Witness ==
    /\ phase = "done"
    /\ CountNodes(out) < CountNodes(table)
    /\ \E e \in Entries(table, <<"/">>) :
           /\ HasOnlyOneChild(e.node)
           /\ ComparedPath(e) \in keys
           /\ \E i \in 1..Len(out) :
                  /\ out[i].name = e.node.name
                  /\ Len(out[i].children) = 1

\* ------------------------------------- SpecFlat: flatMultiLevelRoutes

\* a route table handed to vue-router: top-level paths start with '/'
FlatTemplates ==
    { [path |-> P_a, meta |-> [title |-> "m1"]],
      [path |-> P_b, meta |-> [title |-> "m1"]],
      [path |-> <<"c">>, meta |-> [title |-> "m2", hidden |-> TRUE]] }

InitFlat == RouteIdle /\ SessionIdle

FlatAddTop(tmpl) ==
    /\ phase = "build"
    /\ CountNodes(table) < MaxNodesFlat
    /\ StartsWithSlash(tmpl.path)
    /\ table' = Append(table, MkRoute(tmpl, CountNodes(table) + 1))
    /\ UNCHANGED <<keys, out, phase, sessionVars>>

FlatAddChild(p, tmpl) ==
    /\ phase = "build"
    /\ CountNodes(table) < MaxNodesFlat
    /\ p \in NamesOf(table)
    /\ table' = InsertUnder(table, p, MkRoute(tmpl, CountNodes(table) + 1))
    /\ UNCHANGED <<keys, out, phase, sessionVars>>

\* a route whose children were all filtered out keeps an empty children array
FlatEmptyChildren(p) ==
    /\ phase = "build"
    /\ p \in NamesOf(table)
    /\ GiveEmptyChildren(table, p) # table
    /\ table' = GiveEmptyChildren(table, p)
    /\ UNCHANGED <<keys, out, phase, sessionVars>>

FlatCall ==
    /\ phase = "build"
    /\ out' = flatMultiLevelRoutes(table)
    /\ phase' = "done"
    /\ UNCHANGED <<table, keys, sessionVars>>

NextFlat ==
    \/ \E tmpl \in FlatTemplates : FlatAddTop(tmpl)
    \/ \E p \in NamesOf(table), tmpl \in FlatTemplates : FlatAddChild(p, tmpl)
    \/ \E p \in NamesOf(table) : FlatEmptyChildren(p)
    \/ FlatCall

SpecFlat == InitFlat /\ [][NextFlat]_vars

\* the depth of a route list: 0 for the empty list, 1 for routes without
\* (non-empty) children
RECURSIVE Depth(_)
Depth(routes) ==
    IF routes = <<>> THEN 0
    ELSE LET d1 == 1 + (IF HasChildren(Head(routes))
                        THEN Depth(Head(routes).children) ELSE 0)
             d2 == Depth(Tail(routes))
         IN  IF d1 > d2 THEN d1 ELSE d2

\* C2 (as stated): in the result of flatMultiLevelRoutes no child of a
\* top-level route has a children list of its own.
C2_NoChildHasChildrenList ==
    phase = "done" =>
        \A i \in 1..Len(out) :
            HasChildren(out[i]) =>
                \A j \in 1..Len(out[i].children) : ~HasChildren(out[i].children[j])

\* C2 (amended): the result of flatMultiLevelRoutes is at most two levels deep:
\* no child of a top-level route has a non-empty children list (an empty
\* children array stays on a child of a route that needed no flattening).
C2_AtMostTwoLevels ==
    phase = "done" =>
        /\ Depth(out) <= 2
        /\ \A i \in 1..Len(out) :
               HasChildren(out[i]) =>
                   \A j \in 1..Len(out[i].children) :
                       ChildrenLength(out[i].children[j]) = 0

\* a table nested four levels deep was flattened
C2_Witness ==
    /\ phase = "done"
    /\ Depth(table) >= 4
    /\ Depth(out) = 2

\* C3: flatMultiLevelRoutes keeps every route: the top-level routes stay in
\* place with their name and meta, and every route nested at any depth below
\* a top-level route is, exactly once, a direct child of that route in the
\* result, with its name and meta; the result holds no other route.
C3_FlatPreservesRoutes ==
    phase = "done" =>
        /\ Len(out) = Len(table)
        /\ \A i \in 1..Len(table) :
               /\ out[i].name = table[i].name
               /\ out[i].meta = table[i].meta
               /\ HasChildren(out[i]) = HasChildren(table[i])
               /\ HasChildren(table[i]) =>
                      LET below == Entries(table[i].children, <<>>)
                          kids  == out[i].children
                      IN  /\ Len(kids) = Cardinality({e.node.name : e \in below})
                          /\ \A e \in below :
                                 /\ Cardinality({j \in 1..Len(kids) :
                                                   kids[j].name = e.node.name}) = 1
                                 /\ \A j \in 1..Len(kids) :
                                        kids[j].name = e.node.name =>
                                            kids[j].meta = e.node.meta

\* a route three levels below a top-level route became its direct child
C3_Witness ==
    /\ phase = "done"
    /\ \E i \in 1..Len(table) :
           /\ HasChildren(table[i])
           /\ Depth(table[i].children) >= 3
           /\ Len(out[i].children) = CountNodes(table[i].children)
           /\ Len(out[i].children) > Len(table[i].children)

\* ------------------------------------ SpecServer: generateRoutesByServer

ServerTemplates ==
    { [path |-> P_a, redirect |-> <<"/", "a", "/", "b">>, component |-> C_layout,
       meta |-> [title |-> "layout"]],
      [path |-> P_b, redirect |-> <<>>, component |-> C_parent,
       meta |-> [title |-> "parent", alwaysShow |-> TRUE]],
      [path |-> P_b, redirect |-> <<>>, component |-> C_home,
       meta |-> [title |-> "view"]],
      [path |-> <<"c">>, redirect |-> <<>>, component |-> C_missing,
       meta |-> [title |-> "missing", hidden |-> TRUE]],
      [path |-> P_url, redirect |-> <<>>, component |-> <<>>,
       meta |-> [title |-> "link"]] }

MkServerRoute(tmpl, n) ==
    [path |-> tmpl.path, name |-> RouteNames[n], redirect |-> tmpl.redirect,
     component |-> tmpl.component, meta |-> tmpl.meta]

InitServer == RouteIdle /\ SessionIdle

SrvAddTop(tmpl) ==
    /\ phase = "build"
    /\ CountNodes(table) < MaxNodesSrv
    /\ table' = Append(table, MkServerRoute(tmpl, CountNodes(table) + 1))
    /\ UNCHANGED <<keys, out, phase, sessionVars>>

SrvAddChild(p, tmpl) ==
    /\ phase = "build"
    /\ CountNodes(table) < MaxNodesSrv
    /\ p \in NamesOf(table)
    /\ table' = InsertUnder(table, p, MkServerRoute(tmpl, CountNodes(table) + 1))
    /\ UNCHANGED <<keys, out, phase, sessionVars>>

SrvEmptyChildren(p) ==
    /\ phase = "build"
    /\ p \in NamesOf(table)
    /\ GiveEmptyChildren(table, p) # table
    /\ table' = GiveEmptyChildren(table, p)
    /\ UNCHANGED <<keys, out, phase, sessionVars>>

SrvCall ==
    /\ phase = "build"
    /\ out' = generateRoutesByServer(table)
    /\ phase' = "done"
    /\ UNCHANGED <<table, keys, sessionVars>>

NextServer ==
    \/ \E tmpl \in ServerTemplates : SrvAddTop(tmpl)
    \/ \E p \in NamesOf(table), tmpl \in ServerTemplates : SrvAddChild(p, tmpl)
    \/ \E p \in NamesOf(table) : SrvEmptyChildren(p)
    \/ SrvCall

SpecServer == InitServer /\ [][NextServer]_vars

\* outList has the shape of inList: one record per input record, in the same
\* order, with the input's path, name, redirect and meta, and children exactly
\* where the input has children
RECURSIVE SameTree(_, _)
SameTree(outList, inList) ==
    /\ Len(outList) = Len(inList)
    /\ \A i \in 1..Len(inList) :
           /\ outList[i].path = inList[i].path
           /\ outList[i].name = inList[i].name
           /\ outList[i].redirect = inList[i].redirect
           /\ outList[i].meta = inList[i].meta
           /\ HasChildren(outList[i]) = HasChildren(inList[i])
           /\ HasChildren(inList[i]) =>
                  SameTree(outList[i].children, inList[i].children)

\* C4: the result of generateRoutesByServer has the tree shape and sibling
\* order of the server-supplied list, one record per input record at every
\* level, each with that record's path, name, redirect and meta.
C4_ServerPreservesTree ==
    phase = "done" => SameTree(out, table)

\* a nested list holding a route whose view file is missing was converted
C4_Witness ==
    /\ phase = "done"
    /\ Depth(table) >= 2
    /\ \E e \in Entries(table, <<>>) : e.node.component = C_missing
    /\ \E e \in Entries(out, <<>>) : Has(e.node, "component")
    /\ \E e \in Entries(out, <<>>) : ~Has(e.node, "component")

\* =========================================================== the session

\* SUCCESS_CODE of @/constants: the envelope code of a successful response
SUCCESS_CODE == 0

\* the user names typed into the form, as character sequences
Users == {<<"a", "d", "m", "i", "n">>, <<"t", " ", "1">>}

\* the sign-in form's data for user u
FormData(u) == [username |-> u, password |-> "pw"]

\* the user info the login API returns for user u
UserInfoOf(u) == [username |-> u, role |-> u]

\* -------------------------------------------------------------- the router

P_login == <<"/", "login">>

\* constantRouterMap
constantRouterMap ==
    << [path |-> <<"/">>, name |-> "Home", meta |-> [hidden |-> TRUE]],
       [path |-> P_login, name |-> "Login", meta |-> [hidden |-> TRUE]] >>

\* asyncRouterMap: every entry is commented out
asyncRouterMap == <<>>

\* the catch-all route that generateRoutes appends
NotFoundRoute ==
    [path |-> <<"/", ":path(.*)*">>, redirect |-> <<"/", "404">>, name |-> "404Page",
     meta |-> [hidden |-> TRUE, breadcrumb |-> FALSE]]

\* the route lists the role API can return in server mode
ServerRouteLists ==
    { <<>>,
      << [path |-> P_a, name |-> "Dashboard", redirect |-> <<"/", "a", "/", "b">>,
          component |-> C_layout, meta |-> [title |-> "dashboard"],
          children |->
              << [path |-> P_b, name |-> "Level", redirect |-> <<>>,
                  component |-> C_parent, meta |-> [title |-> "level"],
                  children |->
                      << [path |-> <<"c">>, name |-> "Leaf", redirect |-> <<>>,
                          component |-> C_home,
                          meta |-> [title |-> "leaf", affix |-> TRUE]] >>] >>] >> }

\* the key lists the role API can return in front-end mode
KeyLists == { <<>>, <<P_a>> }

\* the views a navigation can open
Views ==
    { [path |-> <<"/", "a", "/", "b", "/", "c">>, name |-> "Leaf",
       meta |-> [title |-> "leaf", affix |-> TRUE]],
      [path |-> <<"/", "guide">>, name |-> "Guide", meta |-> [title |-> "guide"]] }

\* ------------------------------------------------------------ generateRoutes

\* the type generateRoutes is called with (LoginForm: signIn and getRole)
RouteType ==
    IF ~dynamicRouter THEN "static"
    ELSE IF serverDynamicRouter THEN "server" ELSE "frontEnd"

SeqToSet(l) == {l[i] : i \in 1..Len(l)}

\* routerMap of generateRoutes(type, routersArg)
RouterMap(type, routersArg) ==
    IF type = "server" THEN generateRoutesByServer(routersArg)
    ELSE IF type = "frontEnd"
    THEN generateRoutesByFrontEnd(cloneDeep(asyncRouterMap), SeqToSet(routersArg), <<"/">>)
    ELSE cloneDeep(asyncRouterMap)

\* the getter getAddRouters
getAddRouters == flatMultiLevelRoutes(cloneDeep(addRouters))

\* ----------------------------------------------------------------- tagsView

\* delAllVisitedViews
delAllVisitedViews(views, info) ==
    IF info # <<>>
    THEN SelectSeq(views, LAMBDA tag : Flag(tag.meta, "affix"))
    ELSE <<>>

\* addCachedView that adds to the names already cached
addCachedView_Merge(cached, views) ==
    cached \cup {views[i].name : i \in {j \in 1..Len(views) : ~Flag(views[j].meta, "noCache")}}

\* addCachedView: the names of the visited views that do not set noCache
addCachedView(cached, views) ==
    LET cacheMap == {views[i].name : i \in {j \in 1..Len(views) : ~Flag(views[j].meta, "noCache")}}
    IN  IF cached = cacheMap THEN cached ELSE cacheMap

\* addVisitedView without the look-up of the path
addVisitedView_NoPathCheck(views, view) ==
    IF Flag(view.meta, "noTagsView") THEN views
    ELSE Append(views, [path |-> view.path, name |-> view.name, meta |-> view.meta,
                        title |-> IF Has(view.meta, "title") THEN view.meta.title
                                  ELSE "no-name"])

\* addVisitedView
addVisitedView(views, view) ==
    IF \E i \in 1..Len(views) : views[i].path = view.path THEN views
    ELSE IF Flag(view.meta, "noTagsView") THEN views
    ELSE Append(views, [path |-> view.path, name |-> view.name, meta |-> view.meta,
                        title |-> IF Has(view.meta, "title") THEN view.meta.title
                                  ELSE "no-name"])

\* ------------------------------------------------------------- user store

\* reset that leaves the user info in place
reset_KeepUserInfo ==
    /\ visitedViews' = delAllVisitedViews(visitedViews, userInfo)
    /\ cachedViews' = addCachedView(cachedViews, visitedViews')
    /\ token' = ""
    /\ userInfo' = userInfo
    /\ roleRouters' = << <<>> >>
    /\ nav' = [kind |-> "replace", path |-> P_login]

\* reset that forgets the redirect to /login
reset_NoRedirect ==
    /\ visitedViews' = delAllVisitedViews(visitedViews, userInfo)
    /\ cachedViews' = addCachedView(cachedViews, visitedViews')
    /\ token' = ""
    /\ userInfo' = <<>>
    /\ roleRouters' = << <<>> >>
    /\ nav' = nav

\* reset(): what it writes; logout() is reset()
reset ==
    /\ visitedViews' = delAllVisitedViews(visitedViews, userInfo)
    /\ cachedViews' = addCachedView(cachedViews, visitedViews')
    /\ token' = ""
    /\ userInfo' = <<>>
    /\ roleRouters' = << <<>> >>
    /\ nav' = [kind |-> "replace", path |-> P_login]

\* the variables reset() writes
resetVars == <<visitedViews, cachedViews, token, userInfo, roleRouters, nav>>

\* ------------------------------------------------------------------- axios

U_login == <<"/mock", "/user/login">>
U_logout == <<"/mock", "/user/loginOut">>
U_role == <<"/mock", "/role/list">>
U_role2 == <<"/mock", "/role/list2">>
U_list == <<"/mock", "/user/list">>

\* the characters encodeURIComponent leaves as they are
Unreserved ==
    {"a", "b", "c", "d", "e", "f", "g", "h", "i", "j", "k", "l", "m", "n", "o", "p",
     "q", "r", "s", "t", "u", "v", "w", "x", "y", "z",
     "0", "1", "2", "3", "4", "5", "6", "7", "8", "9",
     "-", "_", ".", "!", "~", "*", "'", "(", ")"}

\* the escape sequence of a character of the ASCII punctuation
PercentEncode(c) ==
    CASE c = " " -> "%20"
      [] c = "/" -> "%2F"
      [] c = "&" -> "%26"
      [] c = "=" -> "%3D"
      [] c = "?" -> "%3F"

\* encodeURIComponent of a value given as its characters
RECURSIVE encodeURIComponent(_)
encodeURIComponent(v) ==
    IF v = <<>> THEN ""
    ELSE (IF Head(v) \in Unreserved THEN Head(v) ELSE PercentEncode(Head(v)))
         \o encodeURIComponent(Tail(v))

\* defaultRequestInterceptors, GET with params: the url with the query string.
\* params is a sequence of [key, value], value <<>> for null / undefined
RECURSIVE QueryPairs(_)
QueryPairs(params) ==
    IF params = <<>> THEN <<>>
    ELSE (IF Head(params).value # <<>>
          THEN <<Head(params).key \o "=" \o encodeURIComponent(Head(params).value[1]), "&">>
          ELSE <<>>)
         \o QueryPairs(Tail(params))

QueryUrl(url, params) ==
    LET long == url \o <<"?">> \o QueryPairs(params)
    IN  SubSeq(long, 1, Len(long) - 1)

\* config.url after defaultRequestInterceptors; params <<>> when the caller gives none
FinalUrl(method, url, params) ==
    IF method = "get" /\ params # <<>> THEN QueryUrl(url, params[1]) ELSE url

\* String.prototype.replace('/mock', ''): the first occurrence only
RECURSIVE RemoveFirst(_, _)
RemoveFirst(url, tok) ==
    IF url = <<>> THEN <<>>
    ELSE IF Head(url) = tok THEN Tail(url)
    ELSE <<Head(url)>> \o RemoveFirst(Tail(url), tok)

\* the key the request interceptor stores the controller under
ControllerKey(url) == IF useMock THEN RemoveFirst(url, "/mock") ELSE url

\* Map.prototype.set / delete / get on abortControllerMap
MapSet(map, key, id) == {e \in map : e.key # key} \cup {[key |-> key, id |-> id]}

MapDelete(map, key) == {e \in map : e.key # key}

MapHas(map, key) == \E e \in map : e.key = key

MapGet(map, key) == (CHOOSE e \in map : e.key = key).id

\* request(option) of axios/index.ts followed by the request interceptors:
\* the request in flight
NewRequest(kind, method, url, params, sid, user) ==
    [id |-> issued + 1, kind |-> kind, method |-> method,
     url |-> FinalUrl(method, url, params),
     auth |-> [key |-> tokenKey, value |-> token],
     aborted |-> FALSE, sid |-> sid, user |-> user]

\* the request interceptor that stores the controller under the url only when
\* no controller is stored there yet
Send_KeepFirst(req) ==
    /\ requests' = requests \cup {req}
    /\ abortControllerMap' =
           IF MapHas(abortControllerMap, ControllerKey(req.url))
           THEN abortControllerMap
           ELSE MapSet(abortControllerMap, ControllerKey(req.url), req.id)
    /\ issued' = issued + 1

\* the request goes out: the request interceptor stores its controller
Send(req) ==
    /\ requests' = requests \cup {req}
    /\ abortControllerMap' = MapSet(abortControllerMap, ControllerKey(req.url), req.id)
    /\ issued' = issued + 1

\* the first response interceptor, on a response: the controller stored under
\* res.config.url is dropped
Received(req) ==
    /\ requests' = requests \ {req}
    /\ abortControllerMap' = MapDelete(abortControllerMap, req.url)
    /\ issued' = issued

\* the number of requests the sign-ins have issued so far
RECURSIVE SignInRequests(_)
SignInRequests(log) ==
    IF log = <<>> THEN 0
    ELSE Cardinality({j \in 1..Len(Head(log).steps) : Head(log).steps[j] \in {"login", "role"}})
         + SignInRequests(Tail(log))

\* the number of requests issued outside the sign-ins
OtherIssued == issued - SignInRequests(signIns)

\* ----------------------------------------------------- the login form

\* the order of the statements that follow the awaited generateRoutes, with
\* the navigation moved in front of the route registration
ContNext_PushFirst(pc) ==
    CASE pc = "generate" -> "push"
      [] pc = "push" -> "addRoutes"
      [] pc = "addRoutes" -> "setIsAddRouters"
      [] pc = "setIsAddRouters" -> "idle"

\* the order of the statements of signIn / getRole once the API has answered
ContNext(pc) ==
    CASE pc = "generate" -> "addRoutes"
      [] pc = "addRoutes" -> "setIsAddRouters"
      [] pc = "setIsAddRouters" -> "push"
      [] pc = "push" -> "idle"

\* the handler moves past the statement it is at
Advance ==
    /\ cont' = IF ContNext(cont.pc) = "idle" THEN Idle
               ELSE [cont EXCEPT !.pc = ContNext(cont.pc)]
    /\ signIns' = [signIns EXCEPT ![cont.sid].steps = Append(@, cont.pc)]
    /\ loading' = IF ContNext(cont.pc) = "idle" /\ ~dynamicRouter THEN FALSE ELSE loading

\* the role API getRole calls
RoleUrl == IF dynamicRouter /\ serverDynamicRouter THEN U_role ELSE U_role2

\* what the role API can answer with
RoleData == IF dynamicRouter /\ serverDynamicRouter THEN ServerRouteLists ELSE KeyLists

\* the sign-in button is clicked with a valid form: signIn up to the login call
StartSignIn(u) ==
    /\ cont = Idle
    /\ ~loading
    /\ Len(signIns) < MaxSignIns
    /\ loading' = TRUE
    /\ signIns' = Append(signIns, [user |-> u, steps |-> <<"login">>])
    /\ Send(NewRequest("login", "post", U_login, <<>>, Len(signIns) + 1, u))
    /\ UNCHANGED <<routeVars, hookVars, configVars, userVars, permissionVars, routerVars,
                   tagsVars, cont>>

\* the login API answers with the success code: signIn up to getRole's call of
\* the role API (dynamic routes) or up to generateRoutes (static routes)
LoginSucceeds(r, remember) ==
    /\ cont = Idle
    /\ r \in requests /\ r.kind = "login" /\ ~r.aborted
    /\ loginInfo' = IF remember THEN <<FormData(r.user)>> ELSE <<>>
    /\ rememberMe' = remember
    /\ userInfo' = <<UserInfoOf(r.user)>>
    /\ IF dynamicRouter
       THEN LET role == NewRequest("role", "get", RoleUrl,
                                   << <<[key |-> "roleName", value |-> <<r.user>>]>> >>,
                                   r.sid, r.user)
            IN  /\ requests' = (requests \ {r}) \cup {role}
                /\ abortControllerMap' =
                       MapSet(MapDelete(abortControllerMap, r.url),
                              ControllerKey(role.url), role.id)
                /\ issued' = issued + 1
                /\ signIns' = [signIns EXCEPT ![r.sid].steps = Append(@, "role")]
                /\ loading' = FALSE
                /\ cont' = cont
       ELSE /\ Received(r)
            /\ cont' = [pc |-> "generate", sid |-> r.sid, data |-> <<>>]
            /\ UNCHANGED <<signIns, loading>>
    /\ UNCHANGED <<routeVars, hookVars, configVars, tokenKey, token, roleRouters, permissionVars,
                   routerVars, tagsVars>>

\* the role API answers with the success code: getRole up to generateRoutes
RoleSucceeds(r, data) ==
    /\ cont = Idle
    /\ r \in requests /\ r.kind = "role" /\ ~r.aborted
    /\ Received(r)
    /\ roleRouters' = <<data>>
    /\ cont' = [pc |-> "generate", sid |-> r.sid, data |-> data]
    /\ UNCHANGED <<routeVars, hookVars, configVars, userInfo, tokenKey, token, rememberMe,
                   loginInfo, permissionVars, routerVars, tagsVars,
                   loading, signIns>>

\* generateRoutes with the 404 route in front of the generated routes
GenerateRoutes_NotFoundFirst ==
    /\ cont.pc = "generate"
    /\ LET routerMap == RouterMap(RouteType, cont.data)
       IN  /\ addRouters' = <<NotFoundRoute>> \o routerMap
           /\ routers' = cloneDeep(constantRouterMap) \o routerMap
    /\ Advance
    /\ UNCHANGED <<routeVars, hookVars, configVars, userVars, isAddRouters, routerVars, tagsVars,
                   axiosVars>>

\* permissionStore.generateRoutes(type, routers)
GenerateRoutes ==
    /\ cont.pc = "generate"
    /\ LET routerMap == RouterMap(RouteType, cont.data)
       IN  /\ addRouters' = routerMap \o <<NotFoundRoute>>
           /\ routers' = cloneDeep(constantRouterMap) \o routerMap
    /\ Advance
    /\ UNCHANGED <<routeVars, hookVars, configVars, userVars, isAddRouters, routerVars, tagsVars,
                   axiosVars>>

\* permissionStore.getAddRouters.forEach(route => addRoute(route))
AddRoutes ==
    /\ cont.pc = "addRoutes"
    /\ registered' = registered \cup NamesOf(getAddRouters)
    /\ Advance
    /\ UNCHANGED <<routeVars, hookVars, configVars, userVars, permissionVars, nav, tagsVars,
                   axiosVars>>

\* permissionStore.setIsAddRouters(true)
SetIsAddRouters ==
    /\ cont.pc = "setIsAddRouters"
    /\ isAddRouters' = TRUE
    /\ Advance
    /\ UNCHANGED <<routeVars, hookVars, configVars, userVars, routers, addRouters, routerVars,
                   tagsVars, axiosVars>>

\* push({ path: redirect.value || permissionStore.addRouters[0].path })
Push ==
    /\ cont.pc = "push"
    /\ nav' = [kind |-> "push",
               path |-> IF redirect # <<>> THEN redirect ELSE addRouters[1].path]
    /\ Advance
    /\ UNCHANGED <<routeVars, hookVars, configVars, userVars, permissionVars, registered,
                   tagsVars, axiosVars>>

\* ------------------------------------------------------- other requests

\* the user confirms the logout dialog: logoutConfirm up to the logout call
LogoutConfirm ==
    /\ cont = Idle
    /\ OtherIssued < MaxLogouts
    /\ Send(NewRequest("logout", "get", U_logout, <<>>, 0, <<>>))
    /\ UNCHANGED <<routeVars, hookVars, configVars, userVars, permissionVars, routerVars,
                   tagsVars, formVars>>

\* the logout API answers with the success code: logoutConfirm calls reset
LogoutSucceeds(r) ==
    /\ cont = Idle
    /\ r \in requests /\ r.kind = "logout" /\ ~r.aborted
    /\ Received(r)
    /\ reset
    /\ UNCHANGED <<routeVars, hookVars, configVars, tokenKey, rememberMe, loginInfo,
                   permissionVars, registered, formVars>>

\* the pages of the user list a view can ask for
Pages == {<<"1">>, <<"2">>}

\* the parameters of getUserListApi for page p
ListParams(p) == <<[key |-> "pageIndex", value |-> <<p>>], [key |-> "name", value |-> <<>>]>>

\* a page asks for the user list
FetchList(p) ==
    /\ cont = Idle
    /\ OtherIssued < MaxRequests
    /\ Send(NewRequest("list", "get", U_list, <<ListParams(p)>>, 0, <<>>))
    /\ UNCHANGED <<routeVars, hookVars, configVars, userVars, permissionVars, routerVars,
                   tagsVars, formVars>>

\* the list API answers with the success code
ListSucceeds(r) ==
    /\ cont = Idle
    /\ r \in requests /\ r.kind = "list" /\ ~r.aborted
    /\ Received(r)
    /\ UNCHANGED <<routeVars, hookVars, configVars, userVars, permissionVars, routerVars,
                   tagsVars, formVars>>

\* ---------------------------------------------------- failing answers

ErrorCodes == {401, 500}

\* a response arrives whose envelope code is not the success code:
\* defaultResponseInterceptors shows the message, logs out on 401 and hands
\* undefined to the caller
EnvelopeError(r, code) ==
    /\ cont = Idle
    /\ r \in requests /\ ~r.aborted
    /\ code # SUCCESS_CODE
    /\ Received(r)
    /\ IF code = 401 THEN reset ELSE UNCHANGED resetVars
    /\ loading' = IF r.kind = "login" THEN FALSE ELSE loading
    /\ UNCHANGED <<routeVars, hookVars, configVars, tokenKey, rememberMe, loginInfo,
                   permissionVars, registered, cont, signIns>>

\* the request is rejected (an HTTP error status, or status 0 for a request
\* that was aborted): the error handler shows the message and rejects
RequestFails(r, status) ==
    /\ cont = Idle
    /\ r \in requests
    /\ IF r.aborted THEN status = 0 ELSE status \in ErrorCodes
    /\ requests' = requests \ {r}
    /\ loading' = IF r.kind = "login" THEN FALSE ELSE loading
    /\ UNCHANGED <<routeVars, hookVars, configVars, userVars, permissionVars, routerVars,
                   tagsVars, abortControllerMap, issued, cont, signIns>>

\* ------------------------------------------------------------- cancelling

\* AbortController.abort() of the controllers ids, on the requests in flight
Abort(ids) ==
    {IF r.id \in ids THEN [r EXCEPT !.aborted = TRUE] ELSE r : r \in requests}

\* the urls cancelRequest is called with: the urls of the list requests, as
\* sent and as the request interceptor keys them
CancelUrls ==
    {FinalUrl("get", U_list, <<ListParams(p)>>) : p \in Pages}
    \cup {ControllerKey(FinalUrl("get", U_list, <<ListParams(p)>>)) : p \in Pages}

\* cancelRequest(u)
CancelRequest(u) ==
    /\ cont = Idle
    /\ requests' = IF MapHas(abortControllerMap, u)
                   THEN Abort({MapGet(abortControllerMap, u)}) ELSE requests
    /\ abortControllerMap' = MapDelete(abortControllerMap, u)
    /\ UNCHANGED <<routeVars, hookVars, configVars, userVars, permissionVars, routerVars,
                   tagsVars, issued, formVars>>

\* cancelAllRequest()
CancelAllRequest ==
    /\ cont = Idle
    /\ requests' = Abort({e.id : e \in abortControllerMap})
    /\ abortControllerMap' = {}
    /\ UNCHANGED <<routeVars, hookVars, configVars, userVars, permissionVars, routerVars,
                   tagsVars, issued, formVars>>

\* ------------------------------------------------------------------ views

\* tagsViewStore.addView(view)
AddView(view) ==
    /\ cont = Idle
    /\ visitedViews' = addVisitedView(visitedViews, view)
    /\ cachedViews' = addCachedView(cachedViews, visitedViews')
    /\ UNCHANGED <<routeVars, hookVars, configVars, userVars, permissionVars, routerVars,
                   axiosVars, formVars>>

\* ------------------------------------------------------------------- Spec

Init ==
    /\ RouteIdle
    /\ dynamicRouter \in BOOLEAN
    /\ serverDynamicRouter \in BOOLEAN
    /\ useMock \in BOOLEAN
    /\ redirect \in {<<>>, <<"/", "guide">>}
    /\ StoresConstructed

Next ==
    \/ \E u \in Users : StartSignIn(u)
    \/ \E r \in requests, remember \in BOOLEAN : LoginSucceeds(r, remember)
    \/ \E r \in requests, data \in RoleData : RoleSucceeds(r, data)
    \/ GenerateRoutes
    \/ AddRoutes
    \/ SetIsAddRouters
    \/ Push
    \/ LogoutConfirm
    \/ \E r \in requests : LogoutSucceeds(r)
    \/ \E r \in requests, code \in ErrorCodes : EnvelopeError(r, code)
    \/ \E r \in requests, status \in ErrorCodes : RequestFails(r, status)
    \/ \E view \in Views : AddView(view)

Spec == Init /\ [][Next]_vars

\* ---------------------------------------------------------------- SpecAxios
\* the axios service on its own: requests of a page, their answers, and the
\* two cancel operations

NextAxios ==
    \/ \E p \in Pages : FetchList(p)
    \/ \E r \in requests : ListSucceeds(r)
    \/ \E r \in requests, code \in ErrorCodes : EnvelopeError(r, code)
    \/ \E r \in requests, status \in ErrorCodes \cup {0} : RequestFails(r, status)
    \/ \E u \in CancelUrls : CancelRequest(u)
    \/ CancelAllRequest

SpecAxios == Init /\ [][NextAxios]_vars

\* ------------------------------------------------------------------ claims

\* the steps of a sign-in, in the order of the statements of signIn / getRole
ExpectedSteps ==
    IF dynamicRouter
    THEN <<"login", "role", "generate", "addRoutes", "setIsAddRouters", "push">>
    ELSE <<"login", "generate", "addRoutes", "setIsAddRouters", "push">>

IsPrefix(a, b) == Len(a) <= Len(b) /\ a = SubSeq(b, 1, Len(a))

StepsOf(i) == SeqToSet(signIns[i].steps)

\* C5: every sign-in takes its steps in the order login, role fetch (dynamic
\* routes), route generation, route registration, navigation; when the push is
\* about to be issued, generateRoutes has resolved for this sign-in, every
\* route of getAddRouters is registered in the router and isAddRouters is true.
C5_SignInOrder ==
    /\ \A i \in DOMAIN signIns : IsPrefix(signIns[i].steps, ExpectedSteps)
    /\ cont.pc = "push" =>
           /\ "generate" \in StepsOf(cont.sid)
           /\ addRouters # <<>>
           /\ NamesOf(getAddRouters) \subseteq registered
           /\ isAddRouters

\* two sign-ins have both run to their push, in dynamic mode with the three
\* level route list of the server
C5_Witness ==
    /\ dynamicRouter /\ serverDynamicRouter
    /\ Len(signIns) = 2
    /\ signIns[1].steps = ExpectedSteps
    /\ signIns[2].steps = ExpectedSteps
    /\ "Leaf" \in registered
    /\ nav.kind = "push"

\* the state reset() leaves the user store and the router in
AfterReset ==
    /\ token' = ""
    /\ userInfo' = <<>>
    /\ roleRouters' = << <<>> >>
    /\ nav' = [kind |-> "replace", path |-> P_login]

\* C6 as stated: every 401 reported for a request, as the envelope code of a
\* delivered response or as an HTTP status, resets the user store and issues
\* router.replace('/login').
C6_Every401LogsOut ==
    [][\A r \in requests :
           (EnvelopeError(r, 401) \/ RequestFails(r, 401)) => AfterReset]_vars

\* C6: an envelope code 401 in a delivered response resets the user store and
\* issues router.replace('/login'); an HTTP 401 status only rejects the
\* request: the user store and the navigation stay as they are.
C6_Envelope401LogsOut ==
    [][\A r \in requests :
           /\ EnvelopeError(r, 401) => AfterReset
           /\ RequestFails(r, 401) => UNCHANGED <<userVars, routerVars>>]_vars

\* the role request of a signed-in user was answered with envelope code 401
\* (no logout was asked for): the user is logged out and sent to /login
C6_Witness ==
    /\ OtherIssued = 0
    /\ Len(signIns) = 1
    /\ StepsOf(1) = {"login", "role"}
    /\ requests = {}
    /\ loginInfo # <<>>
    /\ userInfo = <<>>
    /\ nav = [kind |-> "replace", path |-> P_login]

\* a step that logs the user out: the logout API succeeded after the
\* confirmation, or a response carried the envelope code 401
LoggedOut ==
    \E r \in requests : LogoutSucceeds(r) \/ EnvelopeError(r, 401)

\* C7 as stated: after logout the token, the token header key, the user info
\* and the remember-me flag all hold their initial values.
C7_LogoutRestoresInitialValues ==
    [][LoggedOut =>
           /\ token' = ""
           /\ tokenKey' = "Authorization"
           /\ userInfo' = <<>>
           /\ rememberMe' = TRUE]_vars

\* C7: after logout the token is empty and the user info is undefined; the
\* token header key and the remember-me flag are left as they were before
\* the logout.
C7_LogoutClearsTokenAndUserInfo ==
    [][LoggedOut =>
           /\ token' = ""
           /\ userInfo' = <<>>
           /\ tokenKey' = tokenKey
           /\ rememberMe' = rememberMe]_vars

\* a user who signed in with the box unchecked has logged out after the
\* sign-in completed
C7_Witness ==
    /\ Len(signIns) = 1
    /\ "push" \in StepsOf(1)
    /\ OtherIssued = 1
    /\ requests = {}
    /\ nav = [kind |-> "replace", path |-> P_login]
    /\ rememberMe = FALSE
    /\ userInfo = <<>>
    /\ token = ""

\* C8 as stated: after logout the permission store's routers and addRouters
\* are empty, isAddRouters is false and no dynamically added route remains
\* registered in the router.
C8_RoutesDiscardedOnLogout ==
    [][LoggedOut =>
           /\ routers' = <<>>
           /\ addRouters' = <<>>
           /\ ~isAddRouters'
           /\ registered' = {}]_vars

\* the step that completes a sign-in: its push
SignInCompletes == cont.pc = "push" /\ cont' = Idle

\* C9 as stated: when a sign-in completes successfully the user store holds
\* the user info the login API returned for the user who signed in, and a
\* non-empty token.
C9_SessionCreatedAtSignIn ==
    [][SignInCompletes =>
           /\ userInfo' = <<UserInfoOf(signIns[cont.sid].user)>>
           /\ token' # ""]_vars

\* C10 as stated: cancelRequest(u) aborts every request in flight to url u
\* (u as the request interceptor keys it) and leaves no controller for u;
\* cancelAllRequest aborts every request in flight and leaves the map empty.
C10_CancelAbortsEveryRequest ==
    [][/\ \A u \in CancelUrls :
              CancelRequest(u) =>
                  /\ \A r \in requests' : ControllerKey(r.url) = u => r.aborted
                  /\ ~MapHas(abortControllerMap', u)
       /\ CancelAllRequest =>
              /\ \A r \in requests' : r.aborted
              /\ abortControllerMap' = {}]_vars

\* ============================================================ the tag views

\* the locations a navigation can lead to
TagViews ==
    Views \cup
    { [path |-> <<"/", "form">>, name |-> "Form",
       meta |-> [title |-> "form", noCache |-> TRUE]],
      [path |-> <<"/", "redirect">>, name |-> "Redirect",
       meta |-> [hidden |-> TRUE, noTagsView |-> TRUE]] }

\* START_LOCATION of vue-router: the route before the first navigation
StartLocation == [path |-> <<"/">>, name |-> "", meta |-> [f \in {} |-> TRUE]]

\* router.currentRoute.value: the location the last navigation led to
currentRoute ==
    IF \E v \in TagViews : v.path = nav.path
    THEN CHOOSE v \in TagViews : v.path = nav.path
    ELSE StartLocation

\* lodash findIndex(visitedViews, v => v.path === path), 0 when there is none
FindIndex(views, path) ==
    IF \E i \in 1..Len(views) : views[i].path = path
    THEN CHOOSE i \in 1..Len(views) :
             views[i].path = path /\ \A j \in 1..(i - 1) : views[j].path # path
    ELSE 0

\* visitedViews.filter((v, i) => ...): keep[i] is what the callback returns
\* for the entry at i
FilterIndexed(views, keep) ==
    LET F[i \in 0..Len(views)] ==
            IF i = 0 THEN <<>>
            ELSE IF keep[i] THEN Append(F[i - 1], views[i]) ELSE F[i - 1]
    IN  F[Len(views)]

\* delVisitedView: the first entry with the view's path is spliced out
delVisitedView(views, view) ==
    LET i == FindIndex(views, view.path)
    IN  IF i = 0 THEN views
        ELSE SubSeq(views, 1, i - 1) \o SubSeq(views, i + 1, Len(views))

\* delOthersVisitedViews
delOthersVisitedViews(views, view) ==
    FilterIndexed(views, [i \in 1..Len(views) |-> Flag(views[i].meta, "affix") \/ views[i].path = view.path])

\* delLeftViews that forgets the fixed tags
delLeftViews_DropAffix(views, view) ==
    LET index == FindIndex(views, view.path)
    IN  IF index > 0
        THEN FilterIndexed(views, [i \in 1..Len(views) |-> views[i].path = view.path \/ i > index])
        ELSE views

\* delLeftViews: the visited views it leaves
delLeftViews(views, view) ==
    LET index == FindIndex(views, view.path)
    IN  IF index > 0
        THEN FilterIndexed(views, [i \in 1..Len(views) |->
                 Flag(views[i].meta, "affix") \/ views[i].path = view.path \/ i > index])
        ELSE views

\* delRightViews: the visited views it leaves
delRightViews(views, view) ==
    LET index == FindIndex(views, view.path)
    IN  IF index > 0
        THEN FilterIndexed(views, [i \in 1..Len(views) |->
                 Flag(views[i].meta, "affix") \/ views[i].path = view.path \/ i < index])
        ELSE views

\* v.meta.title = title
WithTitle(meta, title) ==
    [f \in DOMAIN meta \cup {"title"} |-> IF f = "title" THEN title ELSE meta[f]]

\* setTitle(title, path): the first entry whose path is path (the selected
\* tag's path when no path is given) gets the title in its meta
setTitle(views, title, path) ==
    LET target == IF path # <<>> THEN path
                  ELSE IF selectedTag # <<>> THEN <<selectedTag[1].path>> ELSE <<>>
        i == IF target = <<>> THEN 0 ELSE FindIndex(views, target[1])
    IN  IF i = 0 THEN views
        ELSE [views EXCEPT ![i].meta = WithTitle(views[i].meta, title)]

\* updateVisitedView: Object.assign(v, view) on the first entry with the path
updateVisitedView(views, view) ==
    LET i == FindIndex(views, view.path)
    IN  IF i = 0 THEN views
        ELSE [views EXCEPT ![i] = [f \in DOMAIN views[i] |->
                                      IF f \in DOMAIN view THEN view[f] ELSE views[i][f]]]

\* delCachedView: the current route's name leaves the cached names
delCachedView(cached) == cached \ {currentRoute.name}

\* ----------------------------------------------------------- cloneDeep

\* a cloneDeep that hands back the object it was given
Copy_Alias(routes) == [value |-> routes, fresh |-> FALSE]

\* cloneDeep(routes) as an object: the value of the copy, which shares no
\* object with the original
Copy(routes) == [value |-> cloneDeep(routes), fresh |-> TRUE]

\* a call of flatMultiLevelRoutes(routes): what it returns, and what the
\* array it was given holds afterwards (the routes of `modules` are changed
\* in place)
flatMultiLevelRoutesCall(routes) ==
    LET modules == Copy(routes)
        result == flatMultiLevelRoutes(modules.value)
    IN  [result |-> result, arg |-> IF modules.fresh THEN routes ELSE result]

\* a read of the getter getAddRouters: what it returns, and what the store's
\* addRouters holds afterwards
getAddRoutersCall ==
    LET arg == Copy(addRouters)
        call == flatMultiLevelRoutesCall(arg.value)
    IN  [result |-> call.result,
         stored |-> IF arg.fresh THEN addRouters ELSE call.arg]

\* ------------------------------------------------------------- SpecTags
\* the tags view store and the useTagsView hook, before a sign-in and in the
\* state a completed sign-in leaves

\* the state the sign-in of user u leaves when the role API answered data
SignedIn(u, data) ==
    /\ dynamicRouter = TRUE /\ serverDynamicRouter = TRUE
    /\ useMock = FALSE /\ redirect = <<>>
    /\ userInfo = <<UserInfoOf(u)>>
    /\ tokenKey = "Authorization" /\ token = ""
    /\ roleRouters = <<data>>
    /\ rememberMe = TRUE
    /\ loginInfo = <<FormData(u)>>
    /\ routers = cloneDeep(constantRouterMap) \o RouterMap("server", data)
    /\ addRouters = RouterMap("server", data) \o <<NotFoundRoute>>
    /\ isAddRouters = TRUE
    /\ registered = NamesOf(flatMultiLevelRoutes(cloneDeep(addRouters)))
    /\ nav = [kind |-> "push", path |-> addRouters[1].path]
    /\ visitedViews = <<>> /\ cachedViews = {}
    /\ loading = FALSE
    /\ requests = {} /\ abortControllerMap = {} /\ issued = 2
    /\ cont = Idle
    /\ signIns = <<[user |-> u, steps |-> <<"login", "role", "generate", "addRoutes",
                                            "setIsAddRouters", "push">>]>>
    /\ HooksIdle

InitTags ==
    /\ RouteIdle
    /\ \/ SessionIdle
       \/ \E data \in ServerRouteLists : SignedIn(<<"a", "d", "m", "i", "n">>, data)

TagsFrame ==
    UNCHANGED <<table, keys, phase, configVars, userVars, registered, axiosVars,
                formVars, schemaVars, storageVars, calledVars, tableVars>>

\* the router finishes a navigation to the location view
Navigate(view) ==
    /\ nav' = [kind |-> "push", path |-> view.path]
    /\ UNCHANGED <<out, permissionVars, tagsVars, selectedTag>>
    /\ TagsFrame

\* tagsViewStore.addView(view)
TagsAddView(view) ==
    /\ visitedViews' = addVisitedView(visitedViews, view)
    /\ cachedViews' = addCachedView(cachedViews, visitedViews')
    /\ UNCHANGED <<out, permissionVars, nav, selectedTag>>
    /\ TagsFrame

\* tagsViewStore.setSelectedTag(tag)
SetSelectedTag(tag) ==
    /\ selectedTag' = <<tag>>
    /\ UNCHANGED <<out, permissionVars, nav, tagsVars>>
    /\ TagsFrame

\* closeCurrent(view): view is <<>> when the caller passes none
CloseCurrent(view) ==
    /\ IF view # <<>> /\ Flag(view[1].meta, "affix")
       THEN UNCHANGED tagsVars
       ELSE /\ visitedViews' =
                   delVisitedView(visitedViews,
                                  IF view # <<>> THEN view[1] ELSE currentRoute)
            /\ cachedViews' = addCachedView(cachedViews, visitedViews')
    /\ UNCHANGED <<out, permissionVars, nav, selectedTag>>
    /\ TagsFrame

\* closeAll(): delAllViews
CloseAll ==
    /\ visitedViews' = delAllVisitedViews(visitedViews, userInfo)
    /\ cachedViews' = addCachedView(cachedViews, visitedViews')
    /\ UNCHANGED <<out, permissionVars, nav, selectedTag>>
    /\ TagsFrame

\* closeOther(): delOthersViews(selectedTag); with no selected tag the filter
\* callback throws as soon as it reads view.path, and nothing is written
CloseOther ==
    /\ IF selectedTag = <<>> THEN UNCHANGED tagsVars
       ELSE /\ visitedViews' = delOthersVisitedViews(visitedViews, selectedTag[1])
            /\ cachedViews' = addCachedView(cachedViews, visitedViews')
    /\ UNCHANGED <<out, permissionVars, nav, selectedTag>>
    /\ TagsFrame

\* closeLeft(): delLeftViews(selectedTag)
CloseLeft ==
    /\ IF selectedTag = <<>> \/ FindIndex(visitedViews, selectedTag[1].path) = 0
       THEN UNCHANGED tagsVars
       ELSE /\ visitedViews' = delLeftViews(visitedViews, selectedTag[1])
            /\ cachedViews' = addCachedView(cachedViews, visitedViews')
    /\ UNCHANGED <<out, permissionVars, nav, selectedTag>>
    /\ TagsFrame

\* closeRight(): delRightViews(selectedTag)
CloseRight ==
    /\ IF selectedTag = <<>> \/ FindIndex(visitedViews, selectedTag[1].path) = 0
       THEN UNCHANGED tagsVars
       ELSE /\ visitedViews' = delRightViews(visitedViews, selectedTag[1])
            /\ cachedViews' = addCachedView(cachedViews, visitedViews')
    /\ UNCHANGED <<out, permissionVars, nav, selectedTag>>
    /\ TagsFrame

\* refreshPage(): delCachedView, then replace('/redirect' + path)
RefreshPage ==
    /\ cachedViews' = delCachedView(cachedViews)
    /\ nav' = [kind |-> "replace", path |-> <<"/", "redirect">>]
    /\ UNCHANGED <<out, permissionVars, visitedViews, selectedTag>>
    /\ TagsFrame

Titles == {"renamed"}

\* setTitle(title, path): path is <<>> when the caller passes none
SetTitle(title, path) ==
    /\ visitedViews' = setTitle(visitedViews, title, path)
    /\ UNCHANGED <<out, permissionVars, nav, cachedViews, selectedTag>>
    /\ TagsFrame

\* tagsViewStore.updateVisitedView(view)
UpdateVisitedView(view) ==
    /\ visitedViews' = updateVisitedView(visitedViews, view)
    /\ UNCHANGED <<out, permissionVars, nav, cachedViews, selectedTag>>
    /\ TagsFrame

\* permissionStore.getAddRouters is read
ReadAddRouters ==
    /\ out' = getAddRoutersCall.result
    /\ addRouters' = getAddRoutersCall.stored
    /\ UNCHANGED <<routers, isAddRouters, nav, tagsVars, selectedTag>>
    /\ TagsFrame

NextTags ==
    \/ \E view \in TagViews : Navigate(view)
    \/ \E view \in TagViews : TagsAddView(view)
    \/ \E tag \in TagViews : SetSelectedTag(tag)
    \/ \E view \in {<<>>} \cup {<<v>> : v \in TagViews} : CloseCurrent(view)
    \/ CloseAll
    \/ CloseOther
    \/ CloseLeft
    \/ CloseRight
    \/ RefreshPage
    \/ \E title \in Titles, path \in {<<>>} \cup {<<v.path>> : v \in TagViews} :
           SetTitle(title, path)
    \/ \E view \in TagViews : UpdateVisitedView(view)
    \/ ReadAddRouters

SpecTags == InitTags /\ [][NextTags]_vars

NoTwoWithSamePath(views) ==
    \A i, j \in 1..Len(views) : views[i].path = views[j].path => i = j

\* C14: the visited views grow only by addView and never hold two entries
\* with the same path: addView appends the view at the end iff no entry has
\* its path and its meta does not set noTagsView, and otherwise leaves the
\* list unchanged.
C14_AddViewAppendsOnce ==
    /\ [](NoTwoWithSamePath(visitedViews))
    /\ [][/\ Len(visitedViews') > Len(visitedViews) =>
                 \E view \in TagViews : TagsAddView(view)
          /\ \A view \in TagViews :
                 TagsAddView(view) =>
                     IF /\ \A i \in 1..Len(visitedViews) : visitedViews[i].path # view.path
                        /\ ~Flag(view.meta, "noTagsView")
                     THEN /\ Len(visitedViews') = Len(visitedViews) + 1
                          /\ SubSeq(visitedViews', 1, Len(visitedViews)) = visitedViews
                          /\ visitedViews'[Len(visitedViews')].path = view.path
                     ELSE visitedViews' = visitedViews]_vars

\* every view that can have a tag has one, so that each further addView is
\* refused
C14_Witness ==
    /\ Len(visitedViews) = Cardinality({v \in TagViews : ~Flag(v.meta, "noTagsView")})
    /\ Len(visitedViews) > 1
    /\ \E v \in TagViews : Flag(v.meta, "noTagsView")

\* ------------------------------------------------------------------ C15

\* the entries of views whose index is in keep, in their order
RECURSIVE Kept(_, _, _)
Kept(views, keep, i) ==
    IF i > Len(views) THEN <<>>
    ELSE (IF i \in keep THEN <<views[i]>> ELSE <<>>) \o Kept(views, keep, i + 1)

\* the indices of the entries without the affix flag
Closable(views) == {i \in 1..Len(views) : ~Flag(views[i].meta, "affix")}

Inside(views, view) == \E i \in 1..Len(views) : views[i].path = view.path

PositionOf(views, view) == CHOOSE i \in 1..Len(views) : views[i].path = view.path

PrunesLeft(views, view, result) ==
    IF Inside(views, view)
    THEN result = Kept(views, (1..Len(views)) \
                           {i \in Closable(views) : i < PositionOf(views, view)}, 1)
    ELSE result = views

PrunesRight(views, view, result) ==
    IF Inside(views, view)
    THEN result = Kept(views, (1..Len(views)) \
                           {i \in Closable(views) : i > PositionOf(views, view)}, 1)
    ELSE result = views

\* C15: delLeftViews(view) / delRightViews(view) remove exactly the non-affix
\* entries before / after the view, keep every other entry in its order, and
\* change nothing when the view is not in the list.
C15_PruneOneSide ==
    /\ [](\A view \in TagViews :
              /\ PrunesLeft(visitedViews, view, delLeftViews(visitedViews, view))
              /\ PrunesRight(visitedViews, view, delRightViews(visitedViews, view)))
    /\ [][/\ CloseLeft /\ selectedTag # <<>> =>
                 PrunesLeft(visitedViews, selectedTag[1], visitedViews')
          /\ CloseRight /\ selectedTag # <<>> =>
                 PrunesRight(visitedViews, selectedTag[1], visitedViews')]_vars

\* the selected tag is last, behind a closable tag and a fixed one: closeLeft
\* removes the first and keeps the other two
C15_Witness ==
    /\ Len(visitedViews) = 3
    /\ selectedTag # <<>>
    /\ ~Flag(visitedViews[1].meta, "affix")
    /\ Flag(visitedViews[2].meta, "affix")
    /\ visitedViews[3].path = selectedTag[1].path
    /\ Len(delLeftViews(visitedViews, selectedTag[1])) = 2

\* ------------------------------------------------------------------ C19

\* one of the close actions of useTagsView
CloseAction ==
    \/ \E view \in {<<>>} \cup {<<v>> : v \in TagViews} : CloseCurrent(view)
    \/ CloseAll
    \/ CloseOther
    \/ CloseLeft
    \/ CloseRight

\* C19: while a user is logged in, no close action (closeCurrent with a view
\* or with the current route, closeAll, closeOther, closeLeft, closeRight)
\* removes a visited view whose meta.affix is set.
C19_AffixTagsStay ==
    [][userInfo # <<>> /\ CloseAction =>
           \A i \in 1..Len(visitedViews) :
               Flag(visitedViews[i].meta, "affix") =>
                   \E j \in 1..Len(visitedViews') : visitedViews'[j] = visitedViews[i]]_vars

\* ------------------------------------------------------------------ C20
\* C20: once reset (logout) has completed, visitedViews is empty and
\* cachedViews is empty, also when some visited views are affix tags.
C20_LogoutDeletesAllViews ==
    [][LoggedOut => visitedViews' = <<>> /\ cachedViews' = {}]_vars

\* -------------------------------------------------------- request headers

CONTENT_TYPE == "application/json"

\* the headers object without the token header while the token is empty
RequestHeaders_SkipEmptyToken(headers) ==
    headers @@ [n \in {"Content-Type"} \cup (IF token = "" THEN {} ELSE {tokenKey}) |->
                    IF n = tokenKey THEN token ELSE CONTENT_TYPE]

\* the headers object request(option) builds: the content type, the token
\* under the token key, then the caller's headers spread over both
RequestHeaders(headers) ==
    headers @@ [n \in {"Content-Type", tokenKey} |->
                    IF n = tokenKey THEN token ELSE CONTENT_TYPE]

NoHeaders == [n \in {} |-> ""]

\* the headers a caller passes in option.headers
CallerHeaders ==
    { NoHeaders,
      [n \in {"X-Trace"} |-> "1"],
      [n \in {"Authorization"} |-> "mine"] }

Methods == {"get", "post", "put", "delete"}

TokenKeys == {"Authorization", "X-Token"}

Tokens == {"", "tok"}

MaxCalls == 2

\* get / post / put / delete (option) with option.headers = headers
Call(method, headers) ==
    /\ cont = Idle
    /\ issued < MaxCalls
    /\ Send([headers |-> RequestHeaders(headers), caller |-> headers] @@
            NewRequest("call", method, U_list, <<>>, 0, <<>>))
    /\ UNCHANGED <<routeVars, hookVars, configVars, userVars, permissionVars, routerVars,
                   tagsVars, formVars>>

\* the API answers a call with the success code
CallSucceeds(r) ==
    /\ cont = Idle
    /\ r \in requests /\ r.kind = "call"
    /\ Received(r)
    /\ UNCHANGED <<routeVars, hookVars, configVars, userVars, permissionVars, routerVars,
                   tagsVars, formVars>>

\* userStore.setToken(t)
SetToken(t) ==
    /\ token' = t
    /\ UNCHANGED <<routeVars, hookVars, configVars, userInfo, tokenKey, roleRouters,
                   rememberMe, loginInfo, permissionVars, routerVars, tagsVars,
                   axiosVars, formVars>>

\* userStore.setTokenKey(k)
SetTokenKey(k) ==
    /\ tokenKey' = k
    /\ UNCHANGED <<routeVars, hookVars, configVars, userInfo, token, roleRouters,
                   rememberMe, loginInfo, permissionVars, routerVars, tagsVars,
                   axiosVars, formVars>>

NextHeaders ==
    \/ \E method \in Methods, headers \in CallerHeaders : Call(method, headers)
    \/ \E r \in requests : CallSucceeds(r)
    \/ \E t \in Tokens : SetToken(t)
    \/ \E k \in TokenKeys : SetTokenKey(k)

\* the stores as constructed, in the server-routes configuration; the headers
\* do not depend on the router mode
InitHeaders == Init /\ dynamicRouter /\ serverDynamicRouter /\ redirect = <<>>

SpecHeaders == InitHeaders /\ [][NextHeaders]_vars

\* ------------------------------------------------------------------ C12

Carries(r, name, value) == name \in DOMAIN r.headers /\ r.headers[name] = value

\* C12 as stated: every request sent through get, post, put or delete carries
\* the header named by the token key with the store's token as its value,
\* whatever headers the caller supplies.
C12_EveryRequestCarriesToken ==
    [][\A r \in requests' \ requests : Carries(r, tokenKey, token)]_vars

\* C12: every request sent through get, post, put or delete carries the
\* header named by the token key with the store's token as its value,
\* whatever other headers the caller supplies; a caller's header of the token
\* key's own name replaces it.
C12_RequestCarriesTokenUnlessOverridden ==
    [][\A r \in requests' \ requests :
           IF tokenKey \in DOMAIN r.caller
           THEN Carries(r, tokenKey, r.caller[tokenKey])
           ELSE Carries(r, tokenKey, token)]_vars

\* a post went out with the token "tok" under the key X-Token, next to the
\* caller's header X-Trace
C12_Witness ==
    \E r \in requests :
        /\ r.method = "post"
        /\ Carries(r, "X-Token", "tok")
        /\ Carries(r, "X-Trace", "1")

\* ------------------------------------------------------ response envelope

\* what the caller's promise resolves with (<<>> for undefined), the message
\* ElMessage.error is called with (<<>> when it is not called), and whether
\* logout is called
Outcome(value, message, logout) ==
    [value |-> value, message |-> message, logout |-> logout]

\* an interceptor that hands the envelope on whatever its code is
defaultResponseInterceptors_AnyCode(response) ==
    IF response.config.responseType = "blob"
    THEN Outcome(<<response>>, <<>>, FALSE)
    ELSE Outcome(<<response.data>>,
                 IF response.data.code = SUCCESS_CODE THEN <<>>
                 ELSE <<response.data.message>>,
                 response.data.code = 401)

\* defaultResponseInterceptors(response)
defaultResponseInterceptors(response) ==
    IF response.config.responseType = "blob"
    THEN Outcome(<<response>>, <<>>, FALSE)
    ELSE IF response.data.code = SUCCESS_CODE
    THEN Outcome(<<response.data>>, <<>>, FALSE)
    ELSE Outcome(<<>>, <<response.data.message>>, response.data.code = 401)

ResponseTypes == {"json", "blob"}

\* the bodies the server answers with
Envelopes ==
    [code : {SUCCESS_CODE} \cup ErrorCodes, data : {"rows", ""}, message : {"denied"}]

\* a page requests the list with option.responseType = type
Fetch(type) ==
    /\ cont = Idle
    /\ issued < MaxCalls
    /\ Send([responseType |-> type] @@
            NewRequest("fetch", "get", U_list, <<>>, 0, <<>>))
    /\ UNCHANGED <<routeVars, hookVars, configVars, userVars, permissionVars, routerVars,
                   tagsVars, formVars>>

\* the response of r as the response interceptors see it
ResponseOf(r, envelope) == [config |-> r, data |-> envelope]

\* the server answers r with the body envelope and a 2xx status: both
\* response interceptors run and the caller's promise resolves
Answer(r, envelope) ==
    /\ cont = Idle
    /\ r \in requests /\ r.kind = "fetch" /\ ~r.aborted
    /\ Received(r)
    /\ out' = defaultResponseInterceptors(ResponseOf(r, envelope))
    /\ IF out'.logout THEN reset ELSE UNCHANGED resetVars
    /\ UNCHANGED <<table, keys, phase, hookVars, configVars, tokenKey, rememberMe,
                   loginInfo, permissionVars, registered, formVars>>

NextEnvelope ==
    \/ \E type \in ResponseTypes : Fetch(type)
    \/ \E r \in requests, envelope \in Envelopes : Answer(r, envelope)
    \/ \E t \in Tokens : SetToken(t)

SpecEnvelope == InitHeaders /\ [][NextEnvelope]_vars

\* ------------------------------------------------------------------ C13
\* C13: for a non-blob request the caller's promise resolves with the
\* {code, data} envelope exactly when the envelope code equals SUCCESS_CODE;
\* for any other code it resolves with undefined and an error message is
\* shown.
C13_EnvelopeUnwrappedByCode ==
    [][\A r \in requests, envelope \in Envelopes :
           Answer(r, envelope) /\ r.responseType # "blob" =>
               /\ out'.value = <<envelope>> <=> envelope.code = SUCCESS_CODE
               /\ envelope.code # SUCCESS_CODE =>
                      out'.value = <<>> /\ out'.message = <<envelope.message>>]_vars

\* a non-blob request was answered with an error code: the caller got
\* undefined and the message was shown
C13_Witness ==
    /\ issued > 0
    /\ DOMAIN out = {"value", "message", "logout"}
    /\ out.value = <<>>
    /\ out.message # <<>>
    /\ ~out.logout

\* ------------------------------------------------------------------ C18
\* C18: a request's AbortController is removed from the controller map when
\* its response arrives: whenever no request is in flight the map is empty,
\* whether the requests succeeded, failed, were GET requests with query
\* params, or were issued under the mock URL prefix.
C18_NoControllerLeftBehind ==
    requests = {} => abortControllerMap = {}

\* ------------------------------------------------------- browser storage
\* JavaScript values carry the tag Object.prototype.toString gives them; a
\* JSON text is the sequence of its tokens, a string literal being an opening
\* quote, the content and a closing quote.

Bool(b) == [t |-> "Boolean", b |-> b]
Num(n) == [t |-> "Number", n |-> n]
Str(s) == [t |-> "String", s |-> s]
Null == [t |-> "Null"]
Arr(items) == [t |-> "Array", items |-> items]
Obj(fields) == [t |-> "Object", fields |-> fields]

Digits == <<"0", "1", "2", "3", "4", "5", "6", "7", "8", "9">>

Quote == "\""

\* JSON.stringify(value)
RECURSIVE stringify(_)
stringify(value) ==
    LET Items[i \in 0..Len(value.items)] ==
            IF i = 0 THEN <<>>
            ELSE Items[i - 1] \o (IF i > 1 THEN <<",">> ELSE <<>>)
                 \o stringify(value.items[i])
        Fields[i \in 0..Len(value.fields)] ==
            IF i = 0 THEN <<>>
            ELSE Fields[i - 1] \o (IF i > 1 THEN <<",">> ELSE <<>>)
                 \o <<Quote, value.fields[i].k, Quote, ":">>
                 \o stringify(value.fields[i].v)
    IN  CASE value.t = "Boolean" -> <<IF value.b THEN "true" ELSE "false">>
          [] value.t = "Number" -> <<Digits[value.n + 1]>>
          [] value.t = "String" -> <<Quote, value.s, Quote>>
          [] value.t = "Null" -> <<"null">>
          [] value.t = "Array" -> <<"[">> \o Items[Len(value.items)] \o <<"]">>
          [] value.t = "Object" -> <<"{">> \o Fields[Len(value.fields)] \o <<"}">>

\* JSON.parse: the value at the head of the text and the text after it
RECURSIVE ParseValue(_)
RECURSIVE ParseItems(_, _)
RECURSIVE ParseFields(_, _)
ParseValue(text) ==
    LET h == Head(text)
    IN  CASE h = "true" -> [v |-> Bool(TRUE), rest |-> Tail(text)]
          [] h = "false" -> [v |-> Bool(FALSE), rest |-> Tail(text)]
          [] h = "null" -> [v |-> Null, rest |-> Tail(text)]
          [] h = Quote -> [v |-> Str(text[2]), rest |-> SubSeq(text, 4, Len(text))]
          [] h = "[" -> ParseItems(Tail(text), <<>>)
          [] h = "{" -> ParseFields(Tail(text), <<>>)
          [] OTHER -> [v |-> Num((CHOOSE d \in 1..Len(Digits) : Digits[d] = h) - 1),
                       rest |-> Tail(text)]

ParseItems(text, items) ==
    IF Head(text) = "]" THEN [v |-> Arr(items), rest |-> Tail(text)]
    ELSE IF Head(text) = "," THEN ParseItems(Tail(text), items)
    ELSE LET item == ParseValue(text)
         IN  ParseItems(item.rest, Append(items, item.v))

ParseFields(text, fields) ==
    IF Head(text) = "}" THEN [v |-> Obj(fields), rest |-> Tail(text)]
    ELSE IF Head(text) = "," THEN ParseFields(Tail(text), fields)
    ELSE LET value == ParseValue(SubSeq(text, 5, Len(text)))
         IN  ParseFields(value.rest, Append(fields, [k |-> text[2], v |-> value.v]))

parse(text) == ParseValue(text).v

\* getValueType(value)
getValueType(value) == value.t

\* window[type].getItem(key): <<>> for null, else <<text>>
getItem(store, key) ==
    IF \E item \in store : item.key = key
    THEN <<(CHOOSE item \in store : item.key = key).text>>
    ELSE <<>>

\* window[type].setItem(key, text)
setItem(store, key, text) ==
    {item \in store : item.key # key} \cup {[key |-> key, text |-> text]}

\* window[type].removeItem(key)
removeItem(store, key) == {item \in store : item.key # key}

\* value.k of an object, undefined being <<>>
Field(object, k) ==
    LET at == {i \in 1..Len(object.fields) : object.fields[i].k = k}
    IN  IF at = {} THEN <<>> ELSE <<object.fields[CHOOSE i \in at : \A j \in at : j <= i].v>>

\* whether a value is falsy
Falsy(value) ==
    \/ value.t = "Null"
    \/ value.t = "Boolean" /\ ~value.b
    \/ value.t = "Number" /\ value.n = 0
    \/ value.t = "String" /\ value.s = ""

\* the text setStorage(key, value) stores
Wrapped(value) ==
    stringify(Obj(<<[k |-> "type", v |-> Str(getValueType(value))],
                    [k |-> "value", v |-> value]>>))

\* getStorage(key) that returns the stored value only when it is truthy
getStorage_Truthy(store, key) ==
    LET value == getItem(store, key)
    IN  IF value # <<>> /\ value[1] # <<>>
        THEN LET val == Field(parse(value[1]), "value")[1]
             IN  IF Falsy(val) THEN Null ELSE val
        ELSE Null

\* getStorage(key): what it returns (null when the item is missing)
getStorage(store, key) ==
    LET value == getItem(store, key)
    IN  IF value # <<>> /\ value[1] # <<>>
        THEN Field(parse(value[1]), "value")[1]
        ELSE Null

\* the values a caller stores
StoredValues ==
    { Bool(FALSE), Num(0), Str(""), Null,
      Obj(<<[k |-> "id", v |-> Num(7)],
            [k |-> "tags", v |-> Arr(<<Bool(TRUE), Str("tok"), Arr(<<>>)>>)]>>) }

StorageKeys == {"token", "dynamicRouter"}

StorageFrame ==
    UNCHANGED <<table, keys, phase, configVars, userVars, permissionVars, routerVars,
                tagsVars, axiosVars, formVars, viewVars, schemaVars, calledVars,
                tableVars>>

\* useStorage(type).setStorage(key, value)
SetStorage(type, key, value) ==
    /\ storage' = [storage EXCEPT ![type] = setItem(@, key, Wrapped(value))]
    /\ UNCHANGED out
    /\ StorageFrame

\* useStorage(type).getStorage(key)
GetStorage(type, key) ==
    /\ out' = getStorage(storage[type], key)
    /\ UNCHANGED storage
    /\ StorageFrame

\* useStorage(type).removeStorage(key)
RemoveStorage(type, key) ==
    /\ storage' = [storage EXCEPT ![type] = removeItem(@, key)]
    /\ UNCHANGED out
    /\ StorageFrame

\* useStorage(type).clear(excludes)
Clear(type, excludes) ==
    /\ storage' = [storage EXCEPT ![type] =
                       {item \in @ : item.key \in excludes \cup
                                         {"dynamicRouter", "serverDynamicRouter"}}]
    /\ UNCHANGED out
    /\ StorageFrame

NextStorage ==
    \/ \E type \in StorageTypes, key \in StorageKeys, value \in StoredValues :
           SetStorage(type, key, value)
    \/ \E type \in StorageTypes, key \in StorageKeys : GetStorage(type, key)
    \/ \E type \in StorageTypes, key \in StorageKeys : RemoveStorage(type, key)
    \/ \E type \in StorageTypes, excludes \in SUBSET StorageKeys : Clear(type, excludes)

\* the stores as constructed; the storage hook reads none of them
InitStorage == InitHeaders /\ ~useMock

SpecStorage == InitStorage /\ [][NextStorage]_vars

\* ------------------------------------------------------------------ C17
\* C17: setStorage(key, v) stores the JSON text of an object {type, value}, a
\* following getStorage(key) returns a value equal to v for every
\* JSON-representable v (false, 0 and the empty string included), and
\* getStorage of a key that was never set or was removed returns null.
C17_StorageRoundTrip ==
    /\ [](\A type \in StorageTypes, key \in StorageKeys :
              getItem(storage[type], key) = <<>> => getStorage(storage[type], key) = Null)
    /\ [][\A type \in StorageTypes, key \in StorageKeys :
              /\ \A value \in StoredValues :
                     SetStorage(type, key, value) =>
                         /\ parse(getItem(storage'[type], key)[1]) =
                                Obj(<<[k |-> "type", v |-> Str(value.t)],
                                      [k |-> "value", v |-> value]>>)
                         /\ getStorage(storage'[type], key) = value
              /\ RemoveStorage(type, key) => getStorage(storage'[type], key) = Null
              /\ GetStorage(type, key) /\ getItem(storage[type], key) # <<>> =>
                     Wrapped(out') = getItem(storage[type], key)[1]]_vars

\* getStorage has returned the stored number 0 from localStorage while the
\* same key is missing in sessionStorage
C17_Witness ==
    /\ out = Num(0)
    /\ getStorage(storage["localStorage"], "token") = Num(0)
    /\ getItem(storage["sessionStorage"], "token") = <<>>
    /\ getItem(storage["localStorage"], "dynamicRouter") # <<>>

\* ------------------------------------------------------------- the form

\* a schema entry
Entry(field, label, api) ==
    [field |-> field, label |-> label, value |-> "", remove |-> FALSE,
     optionApi |-> api, options |-> <<>>]

\* the schema arrays the views create
ViewSchemas ==
    { <<Entry("name", "Name", FALSE), Entry("role", "Role", TRUE)>>,
      <<[Entry("name", "Name", FALSE) EXCEPT !.value = "guest"]>> }

\* unref(getProps).schema: the schema of mergeProps when setProps gave one,
\* else the schema prop
getSchema == IF mergeProps.schema # <<>> THEN mergeProps.schema[1] ELSE schema

\* the array unref(getProps).schema is changed in place to next
SchemaBecomes(next) ==
    IF mergeProps.schema # <<>>
    THEN /\ mergeProps' = [mergeProps EXCEPT !.schema = <<next>>]
         /\ schema' = schema
    ELSE /\ schema' = next
         /\ mergeProps' = mergeProps

\* initModel(schema, formModel)
initModel(entries, model) ==
    LET Step[i \in 0..Len(entries)] ==
            IF i = 0 THEN model
            ELSE LET v == entries[i]
                     m == Step[i - 1]
                 IN  IF v.remove THEN [m EXCEPT ![v.field] = ""]
                     ELSE IF m[v.field] # "" THEN m
                     ELSE [m EXCEPT ![v.field] = v.value]
    IN  Step[Len(entries)]

\* lodash set(v, item.path, item.value)
SetPath(v, item) ==
    IF item.path = "label" THEN [v EXCEPT !.label = item.value]
    ELSE IF item.path = "remove" THEN [v EXCEPT !.remove = item.value]
    ELSE [v EXCEPT !.options = item.value]

\* the inner loop of setSchema on the entry v
RECURSIVE SetEach(_, _)
SetEach(v, schemaProps) ==
    IF schemaProps = <<>> THEN v
    ELSE SetEach(IF v.field = Head(schemaProps).field
                 THEN SetPath(v, Head(schemaProps)) ELSE v,
                 Tail(schemaProps))

\* the form's setSchema(schemaProps): the schema it leaves
setSchema(entries, schemaProps) ==
    [i \in 1..Len(entries) |-> SetEach(entries[i], schemaProps)]

\* the form's addSchema(formSchema, index): index is <<>> when none is given
addSchema(entries, formSchema, index) ==
    IF index # <<>>
    THEN LET at == IF index[1] > Len(entries) THEN Len(entries) ELSE index[1]
         IN  SubSeq(entries, 1, at) \o <<formSchema>> \o SubSeq(entries, at + 1, Len(entries))
    ELSE Append(entries, formSchema)

\* the form's delSchema(field)
delSchema(entries, field) ==
    IF \E i \in 1..Len(entries) : entries[i].field = field
    THEN LET index == CHOOSE i \in 1..Len(entries) :
                          /\ entries[i].field = field
                          /\ \A j \in 1..(i - 1) : entries[j].field # field
         IN  SubSeq(entries, 1, index - 1) \o SubSeq(entries, index + 1, Len(entries))
    ELSE entries

\* setProps(props) that replaces the merged props
setProps_Replace(merged, props) == props

\* the form's setProps(props): Object.assign(mergeProps, props)
setProps(merged, props) ==
    [p \in DOMAIN merged |-> IF props[p] # <<>> THEN props[p] ELSE merged[p]]

\* the form's setValues(data): Object.assign(formModel, data)
setValues(model, data) ==
    [f \in FormFields |-> IF f \in DOMAIN data THEN data[f] ELSE model[f]]

MaxSchema == 3

\* the FormSetProps lists the callers pass to setSchema
SchemaProps ==
    { <<[field |-> "name", path |-> "label", value |-> "Full name"]>>,
      <<[field |-> "role", path |-> "componentProps.options", value |-> <<"admin">>],
        [field |-> "age", path |-> "label", value |-> "Years"]>> }

\* the props the callers pass to setProps
PropsPool ==
    { [NoProps EXCEPT !.isCol = <<FALSE>>],
      [NoProps EXCEPT !.model = <<[f \in {"name"} |-> "ann"]>>],
      [NoProps EXCEPT !.schema = <<(<<Entry("role", "Role", FALSE)>>)>>] }

FormFrame ==
    UNCHANGED <<routeVars, configVars, userVars, permissionVars, routerVars, tagsVars,
                axiosVars, formVars, viewVars, storageVars, calledVars, tableVars>>

\* a view mounts <Form :schema="viewSchema" @register="formRegister">: the
\* watcher builds the model and onMounted registers the form with the hook
Mount(viewSchema) ==
    /\ ~formRef
    /\ schema' = viewSchema
    /\ mergeProps' = NoProps
    /\ formModel' = initModel(viewSchema, formModel)
    /\ formRef' = TRUE
    /\ FormFrame

\* the watcher of unref(getProps).schema, once the schema or the model changed
Watched(model) ==
    formModel' = IF getSchema' # getSchema THEN initModel(getSchema', model) ELSE model

\* formMethods.setProps(props)
SetProps(props) ==
    /\ IF formRef
       THEN /\ mergeProps' = setProps(mergeProps, props)
            /\ schema' = schema
            /\ Watched(IF props.model # <<>> THEN setValues(formModel, props.model[1])
                       ELSE formModel)
       ELSE UNCHANGED <<schema, mergeProps, formModel>>
    /\ UNCHANGED formRef
    /\ FormFrame

\* formMethods.setValues(data)
SetValues(data) ==
    /\ formModel' = IF formRef THEN setValues(formModel, data) ELSE formModel
    /\ UNCHANGED <<schema, mergeProps, formRef>>
    /\ FormFrame

\* formMethods.setSchema(schemaProps)
SetSchema(schemaProps) ==
    /\ IF formRef
       THEN SchemaBecomes(setSchema(getSchema, schemaProps)) /\ Watched(formModel)
       ELSE UNCHANGED <<schema, mergeProps, formModel>>
    /\ UNCHANGED formRef
    /\ FormFrame

\* formMethods.addSchema(formSchema, index)
AddSchema(formSchema, index) ==
    /\ Len(getSchema) < MaxSchema
    /\ IF formRef
       THEN SchemaBecomes(addSchema(getSchema, formSchema, index)) /\ Watched(formModel)
       ELSE UNCHANGED <<schema, mergeProps, formModel>>
    /\ UNCHANGED formRef
    /\ FormFrame

\* formMethods.delSchema(field)
DelSchema(field) ==
    /\ IF formRef
       THEN SchemaBecomes(delSchema(getSchema, field)) /\ Watched(formModel)
       ELSE UNCHANGED <<schema, mergeProps, formModel>>
    /\ UNCHANGED formRef
    /\ FormFrame

\* the promise of getOptions resolves for an entry rendered with an optionApi
\* and no options: the form calls its setSchema with the options
OptionsLoaded(i, options) ==
    /\ formRef
    /\ i \in 1..Len(getSchema)
    /\ getSchema[i].optionApi /\ getSchema[i].options = <<>>
    /\ SchemaBecomes(setSchema(getSchema,
                               <<[field |-> getSchema[i].field,
                                  path |-> "componentProps.options",
                                  value |-> options]>>))
    /\ Watched(formModel)
    /\ UNCHANGED formRef
    /\ FormFrame

\* formMethods.getFormData(filterEmptyVal), getComponentExpose(field),
\* getFormItemExpose(field), getElFormExpose(), getFormExpose(): they read
GetFormData(filterEmptyVal) == UNCHANGED vars

GetComponentExpose(field) == UNCHANGED vars

GetFormItemExpose(field) == UNCHANGED vars

GetElFormExpose == UNCHANGED vars

GetFormExpose == UNCHANGED vars

NextForm ==
    \/ \E viewSchema \in ViewSchemas : Mount(viewSchema)
    \/ \E props \in PropsPool : SetProps(props)
    \/ \E data \in {[f \in {"age"} |-> "7"]} : SetValues(data)
    \/ \E schemaProps \in SchemaProps : SetSchema(schemaProps)
    \/ \E index \in {<<>>, <<0>>} : AddSchema(Entry("age", "Age", FALSE), index)
    \/ \E field \in FormFields : DelSchema(field)
    \/ \E i \in 1..MaxSchema : OptionsLoaded(i, <<"admin", "guest">>)
    \/ \E filterEmptyVal \in BOOLEAN : GetFormData(filterEmptyVal)
    \/ \E field \in FormFields : GetComponentExpose(field)
    \/ \E field \in FormFields : GetFormItemExpose(field)
    \/ GetElFormExpose
    \/ GetFormExpose

SpecForm == InitStorage /\ [][NextForm]_vars

\* ------------------------------------------------------------------ C16

\* the schema arrays of the form: the schema prop and the one given by setProps
SchemaArrays == <<schema, mergeProps.schema>>

SetSchemaCall ==
    \/ \E schemaProps \in SchemaProps : SetSchema(schemaProps)
    \/ \E i \in 1..MaxSchema : OptionsLoaded(i, <<"admin", "guest">>)

Mounting == \E viewSchema \in ViewSchemas : Mount(viewSchema)

\* C16 as stated: once the form is mounted its schema entries change only
\* through a setSchema call; no other operation of the form hook or of the
\* form's exposed interface changes the set or the content of the entries.
C16_OnlySetSchemaChangesSchema ==
    [][SchemaArrays' # SchemaArrays => Mounting \/ SetSchemaCall]_vars

\* C16: once the form is mounted its schema entries change only through
\* setSchema, addSchema, delSchema or a setProps that passes a schema; the
\* other operations of the hook and of the exposed interface (setProps
\* without a schema, setValues, getFormData, getComponentExpose,
\* getFormItemExpose, getElFormExpose, getFormExpose) leave them unchanged.
C16_OnlySchemaCallsChangeSchema ==
    [][/\ SchemaArrays' # SchemaArrays =>
              \/ Mounting
              \/ SetSchemaCall
              \/ \E index \in {<<>>, <<0>>} : AddSchema(Entry("age", "Age", FALSE), index)
              \/ \E field \in FormFields : DelSchema(field)
              \/ \E props \in PropsPool : props.schema # <<>> /\ SetProps(props)
       /\ (\E props \in PropsPool : props.schema = <<>> /\ SetProps(props)) =>
              getSchema' = getSchema]_vars

\* the mounted form was given a schema by setProps, an entry was added in
\* front and its label was set, and setProps({isCol}) and setValues ran since
C16_Witness ==
    /\ formRef
    /\ mergeProps.schema # <<>>
    /\ mergeProps.isCol # <<>>
    /\ formModel["age"] = "7"
    /\ Len(getSchema) = 2
    /\ getSchema[1].label = "Years"

\* ------------------------------------------------------------ SpecCache
\* the actions of the tagsView store called one by one, with the action
\* called last on record

CacheFrame ==
    UNCHANGED <<routeVars, configVars, userVars, permissionVars, routerVars, axiosVars,
                formVars, viewVars, schemaVars, storageVars, tableVars>>

\* the action name was called; found tells whether its view was in the list
Called(name, found) == called' = [action |-> name, found |-> found]

\* tagsViewStore.addView(view)
AddViewCall(view) ==
    /\ visitedViews' = addVisitedView(visitedViews, view)
    /\ cachedViews' = addCachedView(cachedViews, visitedViews')
    /\ Called("addView", TRUE)
    /\ CacheFrame

\* tagsViewStore.delView(view)
DelViewCall(view) ==
    /\ visitedViews' = delVisitedView(visitedViews, view)
    /\ cachedViews' = addCachedView(cachedViews, visitedViews')
    /\ Called("delView", FindIndex(visitedViews, view.path) > 0)
    /\ CacheFrame

\* tagsViewStore.delAllViews()
DelAllViewsCall ==
    /\ visitedViews' = delAllVisitedViews(visitedViews, userInfo)
    /\ cachedViews' = addCachedView(cachedViews, visitedViews')
    /\ Called("delAllViews", TRUE)
    /\ CacheFrame

\* tagsViewStore.delOthersViews(view)
DelOthersViewsCall(view) ==
    /\ visitedViews' = delOthersVisitedViews(visitedViews, view)
    /\ cachedViews' = addCachedView(cachedViews, visitedViews')
    /\ Called("delOthersViews", FindIndex(visitedViews, view.path) > 0)
    /\ CacheFrame

\* tagsViewStore.delLeftViews(view): the cache is rebuilt inside the test of
\* the index
DelLeftViewsCall(view) ==
    /\ visitedViews' = delLeftViews(visitedViews, view)
    /\ cachedViews' = IF FindIndex(visitedViews, view.path) > 0
                      THEN addCachedView(cachedViews, visitedViews')
                      ELSE cachedViews
    /\ Called("delLeftViews", FindIndex(visitedViews, view.path) > 0)
    /\ CacheFrame

\* tagsViewStore.delRightViews(view)
DelRightViewsCall(view) ==
    /\ visitedViews' = delRightViews(visitedViews, view)
    /\ cachedViews' = IF FindIndex(visitedViews, view.path) > 0
                      THEN addCachedView(cachedViews, visitedViews')
                      ELSE cachedViews
    /\ Called("delRightViews", FindIndex(visitedViews, view.path) > 0)
    /\ CacheFrame

\* tagsViewStore.delCachedView(), with the router at the location view
DelCachedViewCall(view) ==
    /\ nav.path = view.path
    /\ cachedViews' = delCachedView(cachedViews)
    /\ visitedViews' = visitedViews
    /\ Called("delCachedView", view.name \in cachedViews)
    /\ CacheFrame

\* the router finishes a navigation to the location view
CacheNavigate(view) ==
    /\ nav' = [kind |-> "push", path |-> view.path]
    /\ UNCHANGED <<table, keys, out, phase, configVars, userVars, permissionVars,
                   registered, tagsVars, axiosVars, formVars, hookVars>>

NextCache ==
    \/ \E view \in TagViews : CacheNavigate(view)
    \/ \E view \in TagViews : AddViewCall(view)
    \/ \E view \in TagViews : DelViewCall(view)
    \/ DelAllViewsCall
    \/ \E view \in TagViews : DelOthersViewsCall(view)
    \/ \E view \in TagViews : DelLeftViewsCall(view)
    \/ \E view \in TagViews : DelRightViewsCall(view)
    \/ \E view \in TagViews : DelCachedViewCall(view)

SpecCache == InitTags /\ [][NextCache]_vars

\* ------------------------------------------------------------------ C21

\* the names of the visited views whose meta does not set noCache
CacheableNames(views) ==
    {views[i].name : i \in {j \in 1..Len(views) : ~Flag(views[j].meta, "noCache")}}

\* C21 as stated: after each of addView, delView, delAllViews, delOthersViews,
\* delLeftViews and delRightViews, cachedViews is exactly the set of names of
\* the visited views whose route meta does not set noCache.
C21_CacheFollowsVisited ==
    called.action \in {"addView", "delView", "delAllViews", "delOthersViews",
                       "delLeftViews", "delRightViews"} =>
        cachedViews = CacheableNames(visitedViews)

\* C21: after each of addView, delView, delAllViews and delOthersViews, and
\* after a delLeftViews or delRightViews whose view is in the visited list,
\* cachedViews is exactly the set of names of the visited views whose route
\* meta does not set noCache.
C21_CacheFollowsVisitedWhenFound ==
    \/ called.action \in {"addView", "delView", "delAllViews", "delOthersViews"}
    \/ called.action \in {"delLeftViews", "delRightViews"} /\ called.found
    => cachedViews = CacheableNames(visitedViews)

\* delRightViews of a visited view has rebuilt the cache: a view with noCache
\* and a cached one are in the list
C21_Witness ==
    /\ called = [action |-> "delRightViews", found |-> TRUE]
    /\ Len(visitedViews) > 1
    /\ cachedViews # {}
    /\ \E i \in 1..Len(visitedViews) : Flag(visitedViews[i].meta, "noCache")

\* ------------------------------------------------------------------ C22

\* the positions of the catch-all 404 route in a list of routes
NotFoundAt(routes) ==
    {i \in 1..Len(routes) :
        routes[i].name = NotFoundRoute.name \/ routes[i].path = NotFoundRoute.path}

\* the 404 route is in the list once, as its last element
NotFoundLast(routes) ==
    /\ routes # <<>>
    /\ routes[Len(routes)] = NotFoundRoute
    /\ NotFoundAt(routes) = {Len(routes)}

\* C22: after every generateRoutes call (server, frontEnd or static)
\* addRouters contains the catch-all 404 route exactly once and as its last
\* element, and the getter getAddRouters returns it in last position too.
C22_NotFoundRouteLast ==
    [][GenerateRoutes => /\ NotFoundLast(addRouters')
                         /\ NotFoundLast(flatMultiLevelRoutes(cloneDeep(addRouters')))]_vars

\* generateRoutes('server', ...) has put the 404 route behind a generated
\* route with nested children
C22_Witness ==
    /\ cont.pc = "addRoutes"
    /\ Len(addRouters) > 1
    /\ isMultipleRoute(addRouters[1])
    /\ Len(getAddRouters) = Len(addRouters)

\* ------------------------------------------------------------ SpecGuard
\* the router with its global before-guard, next to the tagsView store

\* NO_REDIRECT_WHITE_LIST (@/constants): the paths that need no signed-in user
NO_REDIRECT_WHITE_LIST == {P_login}

\* the paths a navigation can ask for
GuardTargets == {view.path : view \in TagViews} \cup {P_login}

\* router.beforeEach(async (to, from, next) => { next() }): the navigation to
\* `to` is confirmed
BeforeEach(to) ==
    /\ nav' = [kind |-> "push", path |-> to]
    /\ Called("beforeEach", to \in NO_REDIRECT_WHITE_LIST)
    /\ UNCHANGED <<table, keys, out, phase, configVars, userVars, permissionVars,
                   registered, tagsVars, axiosVars, formVars, viewVars, schemaVars,
                   storageVars, tableVars>>

NextGuard ==
    \/ \E to \in GuardTargets : BeforeEach(to)
    \/ \E view \in TagViews : AddViewCall(view)
    \/ \E view \in TagViews : DelViewCall(view)
    \/ DelAllViewsCall

SpecGuard == InitTags /\ [][NextGuard]_vars

\* ------------------------------------------------------------------ C23

\* C23: the global before-guard performs a permission check before every
\* navigation: a navigation to a route outside the no-redirect whitelist is
\* confirmed only when a user is logged in (user info present); otherwise it
\* is not confirmed and the user is sent to /login.
C23_GuardChecksUser ==
    called.action = "beforeEach" =>
        \/ nav.path \in NO_REDIRECT_WHITE_LIST
        \/ userInfo # <<>>

\* ------------------------------------------------------------------ C24

\* every route of a list, at any depth, with the base path it is resolved
\* against and the names of the routes above it
RECURSIVE EntriesBelow(_, _, _)
EntriesBelow(routes, basePath, above) ==
    IF routes = <<>> THEN {}
    ELSE LET r == Head(routes)
         IN  {[node |-> r, base |-> basePath, above |-> above]}
             \cup (IF HasChildren(r)
                   THEN EntriesBelow(r.children, pathResolve(basePath, r.path),
                                     above \cup {r.name})
                   ELSE {})
             \cup EntriesBelow(Tail(routes), basePath, above)

\* C24 as stated: for each key that equals the resolved path of a non-hidden
\* route of the table, the output of generateRoutesByFrontEnd contains that
\* route, whether or not the paths of its ancestors are among the keys.
C24_EveryKeyedRouteKept ==
    phase = "done" =>
        \A e \in EntriesBelow(table, <<"/">>, {}) :
            /\ ~Flag(e.node.meta, "hidden")
            /\ pathResolve(e.base, e.node.path) \in keys
            => e.node.name \in NamesOf(out)

\* C24: for each key that equals the path a non-hidden route is compared by
\* (its resolved path; for a route with exactly one child and no alwaysShow,
\* that child's resolved path), the output of generateRoutesByFrontEnd
\* contains that route, provided every route above it is in the output too.
C24_KeyedRouteKeptBelowKeptRoutes ==
    phase = "done" =>
        \A e \in EntriesBelow(table, <<"/">>, {}) :
            /\ ~Flag(e.node.meta, "hidden")
            /\ ComparedPath(e) \in keys
            /\ e.above \subseteq NamesOf(out)
            => e.node.name \in NamesOf(out)

\* a nested route was kept by its key below a kept route, and a route of the
\* table was left out
C24_Witness ==
    /\ phase = "done"
    /\ CountNodes(out) < CountNodes(table)
    /\ \E e \in EntriesBelow(table, <<"/">>, {}) :
           /\ e.above # {}
           /\ ~Flag(e.node.meta, "hidden")
           /\ ComparedPath(e) \in keys
           /\ e.above \subseteq NamesOf(out)
           /\ e.node.name \in NamesOf(out)

\* ------------------------------------------------------------------ C25

\* the sign-ins whose sequence has started and has neither finished nor
\* failed: their login or role request is in flight, or the statements after
\* the awaited answer are running
SignInsInProgress ==
    {r.sid : r \in {q \in requests : q.kind \in {"login", "role"}}}
    \cup (IF cont # Idle THEN {cont.sid} ELSE {})

\* C25: at most one sign-in sequence runs at a time: the loading flag of the
\* login form stays true from the start of a valid sign-in until its whole
\* sequence (login, role fetch, route generation, navigation) has finished or
\* failed, so a second sequence cannot start while one is in progress.
C25_OneSignInAtATime ==
    /\ SignInsInProgress # {} => loading
    /\ Cardinality(SignInsInProgress) <= 1

\* ------------------------------------------------------------------ C26

\* C26: after a successful sign-in with no redirect query the user is
\* navigated to the path of the first generated route, and that path is a
\* concrete route path, never the pattern of the 404 catch-all route, for
\* every generated route list including the empty one.
C26_PushGoesToGeneratedRoute ==
    [][Push /\ redirect = <<>> =>
          /\ nav'.path = addRouters[1].path
          /\ nav'.path # NotFoundRoute.path]_vars

\* ------------------------------------------------------------ SpecTable
\* the useTable hook of one table view: the refs, the two watchers and getList

MaxFetches == 3

MaxPage == 2

PageSizes == {10, 20}

\* a fetchDataApi call that has not settled yet
Pending == [state |-> "pending", res |-> <<>>]

\* what fetchDataApi can resolve with for the call numbered id: nothing, or a
\* list (the rows name the call that asked for them) with or without a total
ResultsOf(id) ==
    {<<>>} \cup {<<[list |-> <<id>>, total |-> t]>> : t \in {<<>>, <<25>>}}

\* getList up to its await, n times in a row: loading is set and
\* fetchDataApi is called with the page and the page size of that moment
GetListCalls(n, page, size) ==
    /\ fetched + n <= MaxFetches
    /\ tableLoading' = TRUE
    /\ fetches' = fetches \cup {[id |-> fetched + k, page |-> page, size |-> size] : k \in 1..n}
    /\ fetched' = fetched + n
    /\ settled' = settled \o [k \in 1..n |-> Pending]

TableFrame ==
    UNCHANGED <<routeVars, configVars, userVars, permissionVars, routerVars, tagsVars,
                axiosVars, formVars, viewVars, schemaVars, storageVars, calledVars>>

\* onMounted with immediate: getList
Mounted ==
    /\ fetched = 0
    /\ GetListCalls(1, currentPage, pageSize)
    /\ UNCHANGED <<currentPage, pageSize, total, dataList>>
    /\ TableFrame

\* methods.refresh(): getList
Refresh ==
    /\ fetched > 0
    /\ GetListCalls(1, currentPage, pageSize)
    /\ UNCHANGED <<currentPage, pageSize, total, dataList>>
    /\ TableFrame

\* currentPage is set to another page: its watcher calls getList
SetCurrentPage(p) ==
    /\ p # currentPage
    /\ currentPage' = p
    /\ GetListCalls(1, p, pageSize)
    /\ UNCHANGED <<pageSize, total, dataList>>
    /\ TableFrame

\* pageSize is set to another size: its watcher calls getList, after setting
\* currentPage to 1 when it is not; that assignment runs the watcher of
\* currentPage in the same flush, which calls getList as well
SetPageSize(n) ==
    /\ n # pageSize
    /\ pageSize' = n
    /\ currentPage' = 1
    /\ GetListCalls(IF currentPage = 1 THEN 1 ELSE 2, 1, n)
    /\ UNCHANGED <<total, dataList>>
    /\ TableFrame

\* the promise of a fetchDataApi call resolves with res: the rest of getList
FetchResolves(call, res) ==
    /\ call \in fetches
    /\ fetches' = fetches \ {call}
    /\ settled' = [settled EXCEPT ![call.id] = [state |-> "resolved", res |-> res]]
    /\ dataList' = IF res # <<>> THEN res[1].list ELSE dataList
    /\ total' = IF res = <<>> THEN total
                ELSE IF res[1].total = <<>> THEN 0 ELSE res[1].total[1]
    /\ tableLoading' = FALSE
    /\ UNCHANGED <<currentPage, pageSize, fetched>>
    /\ TableFrame

\* the promise of a fetchDataApi call rejects: catch and finally of getList
FetchRejects(call) ==
    /\ call \in fetches
    /\ fetches' = fetches \ {call}
    /\ settled' = [settled EXCEPT ![call.id] = [state |-> "rejected", res |-> <<>>]]
    /\ tableLoading' = FALSE
    /\ UNCHANGED <<currentPage, pageSize, total, dataList, fetched>>
    /\ TableFrame

InitTable == RouteIdle /\ SessionIdle

NextTable ==
    \/ Mounted
    \/ Refresh
    \/ \E p \in 1..MaxPage : SetCurrentPage(p)
    \/ \E n \in PageSizes : SetPageSize(n)
    \/ \E call \in fetches : \E res \in ResultsOf(call.id) : FetchResolves(call, res)
    \/ \E call \in fetches : FetchRejects(call)

SpecTable == InitTable /\ [][NextTable]_vars

\* ------------------------------------------------------------------ C27

\* C27: when several table fetches overlap, the latest one wins: after all
\* outstanding getList calls have settled, dataList and total hold the result
\* of the most recently issued call, and loading is false only when no call
\* is still pending.
C27_LatestFetchWins ==
    /\ fetches # {} => tableLoading
    /\ fetches = {} /\ fetched > 0 /\ settled[fetched].res # <<>> =>
           /\ dataList = settled[fetched].res[1].list
           /\ total = (IF settled[fetched].res[1].total = <<>> THEN 0
                       ELSE settled[fetched].res[1].total[1])

\* ------------------------------------------------------------------ C28

\* C28: a change of pageSize causes exactly one call of fetchDataApi, issued
\* with currentPage equal to 1, whatever the current page was before the
\* change.
C28_OneFetchPerPageSizeChange ==
    [][(\E n \in PageSizes : SetPageSize(n)) =>
          /\ fetched' = fetched + 1
          /\ \A call \in fetches' \ fetches : call.page = 1]_vars

====
